---- MODULE Spec2Model ----
(***************************************************************************)
(* natlang.postagging: tagset normalisation (corpus.py, portuguese.py,     *)
(* corpora.py) and the sequence of backoff taggers (tagger.py).            *)
(*                                                                         *)
(* Python strings are modelled as sequences of one-character strings, so   *)
(* that upper(), replace(), split() and the tagged-file format are         *)
(* computed, not assumed.  Str(s) is the string a sequence spells.         *)
(***************************************************************************)
EXTENDS Integers, Sequences, FiniteSets, TLC

(***************************************************************************)
(* Bounds of the model.                                                    *)
(***************************************************************************)
MaxNames == 2

(***************************************************************************)
(* Strings.                                                                *)
(***************************************************************************)
RECURSIVE Str(_)
Str(s) == IF s = <<>> THEN "" ELSE Head(s) \o Str(Tail(s))

Lower == <<"a","b","c","d","e","f","g","h","i","j","k","l","m",
           "n","o","p","q","r","s","t","u","v","w","x","y","z">>
Upper == <<"A","B","C","D","E","F","G","H","I","J","K","L","M",
           "N","O","P","Q","R","S","T","U","V","W","X","Y","Z">>

\* str.upper(), one character
upper_char(c) ==
    IF \E i \in 1..Len(Lower) : Lower[i] = c
    THEN Upper[CHOOSE i \in 1..Len(Lower) : Lower[i] = c]
    ELSE c

\* str.upper()
upper(s) == [i \in 1..Len(s) |-> upper_char(s[i])]

\* str.replace(c, ''), c one character
RECURSIVE remove_char(_, _)
remove_char(s, c) ==
    IF s = <<>> THEN <<>>
    ELSE IF Head(s) = c THEN remove_char(Tail(s), c)
    ELSE <<Head(s)>> \o remove_char(Tail(s), c)

\* str.rfind(c): the last index of c in s (1-based), 0 when absent
rfind(s, c) ==
    IF \E i \in 1..Len(s) : s[i] = c
    THEN CHOOSE i \in 1..Len(s) : s[i] = c /\ \A j \in (i+1)..Len(s) : s[j] # c
    ELSE 0

\* str.split(c)[-1]: what follows the last c, the whole string without c
split_last(s, c) == SubSeq(s, rfind(s, c) + 1, Len(s))

(***************************************************************************)
(* The universal tagset (util.py).                                         *)
(***************************************************************************)
UNIVERSAL_TAGSET == {"VERB", "NOUN", "PRON", "ADJ", "ADV", "ADP", "CONJ",
                     "DET", "NUM", "PRT", "X", "."}

\* A Python dict built from ordered groups {k: v for k in keys}: a later
\* group overrides an earlier one on a shared key.
RECURSIVE dict_of(_)
dict_of(groups) ==
    IF groups = <<>> THEN <<>>
    ELSE LET g    == groups[Len(groups)]
             rest == dict_of(SubSeq(groups, 1, Len(groups) - 1))
         IN  [k \in DOMAIN rest \cup g.keys |->
                 IF k \in g.keys THEN g.val ELSE rest[k]]

MacMorpho_universal_mapping == dict_of(<<
    [val |-> ".",    keys |-> {"!", "\"", "$", "'", "(", ")", ",", "-",
                               ".", "/", ":", ";", "?", "[", "]"}],
    [val |-> "ADJ",  keys |-> {"ADJ", "ADJ|EST"}],
    [val |-> "NUM",  keys |-> {"NUM", "NUM|TEL"}],
    [val |-> "ADV",  keys |-> {"ADV", "ADV-KS", "ADV-KS-REL", "ADV|+",
                               "ADV|EST", "ADV|[", "ADV|]"}],
    [val |-> "CONJ", keys |-> {"KC", "KC|[", "KC|]", "KS"}],
    [val |-> "DET",  keys |-> {"ART", "ART|+"}],
    [val |-> "NOUN", keys |-> {"N", "NPRO", "NPROP", "NPROP|+", "N|AP",
                               "N|DAT", "N|EST", "N|HOR", "N|TEL"}],
    [val |-> "PRON", keys |-> {"PRO-KS", "PRO-KS-REL", "PROADJ", "PROPESS",
                               "PROSUB"}],
    [val |-> "PRT",  keys |-> {"PDEN"}],
    [val |-> "ADP",  keys |-> {"PREP", "PREP|", "PREP|+", "PREP|[",
                               "PREP|]"}],
    [val |-> "VERB", keys |-> {"V", "V|+", "VAUX", "VAUX|+", "PCP"}],
    [val |-> "X",    keys |-> {"CUR", "IN"}] >>)

Floresta_universal_mapping == dict_of(<<
    [val |-> ".",    keys |-> {"!", "\"", "'", "*", ",", "-", ".", "/",
                               ";", "?", "[", "]", "{", "}", "»", "«"}],
    [val |-> "ADJ",  keys |-> {"adj"}],
    [val |-> "NUM",  keys |-> {"num"}],
    [val |-> "ADV",  keys |-> {"adv"}],
    [val |-> "CONJ", keys |-> {"conj-c", "conj-s"}],
    [val |-> "DET",  keys |-> {"art"}],
    [val |-> "NOUN", keys |-> {"n", "prop"}],
    [val |-> "PRON", keys |-> {"pron-det", "pron-indp", "pron-pers"}],
    [val |-> "PRT",  keys |-> {""}],
    [val |-> "ADP",  keys |-> {"prp", "prp-", "pp"}],
    [val |-> "VERB", keys |-> {"v-fin", "v-ger", "v-inf", "v-pcp", "vp"}],
    [val |-> "X",    keys |-> {"ec", "in", "N<{'185/60_R_14'}"}] >>)

LacioWeb_universal_mapping == dict_of(<<
    [val |-> ".",    keys |-> {"!", "\"", "'", "(", ")", ",", "-", ".",
                               "...", ":", ";", "?", "[", "]"}],
    [val |-> "ADJ",  keys |-> {"ADJ"}],
    [val |-> "NUM",  keys |-> {"NC", "ORD", "NO"}],
    [val |-> "ADV",  keys |-> {"ADV", "ADV+PPOA", "ADV+PPR", "LADV"}],
    [val |-> "CONJ", keys |-> {"CONJCOORD", "CONJSUB", "LCONJ"}],
    [val |-> "DET",  keys |-> {"ART"}],
    [val |-> "NOUN", keys |-> {"N", "NP"}],
    [val |-> "PRON", keys |-> {"PAPASS", "PD", "PIND", "PINT", "PPOA",
                               "PPOA+PPOA", "PPOT", "PPR", "PPS", "PR",
                               "PREAL", "PTRA", "LP"}],
    [val |-> "PRT",  keys |-> {"PDEN", "LDEN"}],
    [val |-> "ADP",  keys |-> {"PREP", "PREP+ADJ", "PREP+ADV", "PREP+ART",
                               "PREP+N", "PREP+PD", "PREP+PPOA",
                               "PREP+PPOT", "PREP+PPR", "PREP+PREP",
                               "LPREP", "LPREP+ART"}],
    [val |-> "VERB", keys |-> {"VAUX", "VAUX!PPOA", "VAUX+PPOA", "VBI",
                               "VBI+PAPASS", "VBI+PPOA", "VBI+PPR",
                               "VINT", "VINT+PAPASS", "VINT+PPOA",
                               "VINT+PREAL", "VLIG", "VLIG+PPOA", "VTD",
                               "VTD!PPOA", "VTD+PAPASS", "VTD+PPOA",
                               "VTD+PPR", "VTD+PREAL", "VTI", "VTI+PPOA",
                               "VTI+PREAL", "AUX", "INT"}],
    [val |-> "X",    keys |-> {"I", "RES", "IL"}] >>)

\* mapping/pt_mac_morpho.py: the literal table of MacMorpho.to_universal
to_universal == dict_of(<<
    [val |-> ".",    keys |-> {"!", "\"", "$", "'", "(", ")", ",", "-",
                               ".", "/", ":", ";", "?", "["}],
    [val |-> "ADJ",  keys |-> {"ADJ", "ADJ|EST"}],
    [val |-> "ADV",  keys |-> {"ADV", "ADV-KS", "ADV-KS-REL", "ADV|+",
                               "ADV|EST", "ADV|[", "ADV|]"}],
    [val |-> "ART",  keys |-> {"ART", "ART|+"}],
    [val |-> "X",    keys |-> {"CUR", "IN"}],
    [val |-> "CONJ", keys |-> {"KC", "KC|[", "KC|]", "KS"}],
    [val |-> "NOUN", keys |-> {"N", "NPRO", "NPROP", "NPROP|+", "N|AP",
                               "N|DAT", "N|EST", "N|HOR", "N|TEL"}],
    [val |-> "NUM",  keys |-> {"NUM", "NUM|TEL"}],
    [val |-> "VERB", keys |-> {"PCP", "V", "VAUX", "VAUX|+", "V|+"}],
    [val |-> "PRT",  keys |-> {"PDEN"}],
    [val |-> "ADP",  keys |-> {"PREP", "PREP|", "PREP|+", "PREP|[",
                               "PREP|]"}],
    [val |-> "PRON", keys |-> {"PRO-KS", "PRO-KS-REL", "PROADJ", "PROPESS",
                               "PROSUB"}] >>)

Classes == {"MacMorpho", "Floresta", "LacioWeb"}

\* cls._universal_mapping()
_universal_mapping(c) ==
    CASE c = "MacMorpho" -> MacMorpho_universal_mapping
      [] c = "Floresta"  -> Floresta_universal_mapping
      [] c = "LacioWeb"  -> LacioWeb_universal_mapping


\* The characters of a tag of the tables' range (a Python str again).
Chars(v) ==
    CASE v = "VERB" -> <<"V","E","R","B">>
      [] v = "NOUN" -> <<"N","O","U","N">>
      [] v = "PRON" -> <<"P","R","O","N">>
      [] v = "ADJ"  -> <<"A","D","J">>
      [] v = "ADV"  -> <<"A","D","V">>
      [] v = "ADP"  -> <<"A","D","P">>
      [] v = "CONJ" -> <<"C","O","N","J">>
      [] v = "DET"  -> <<"D","E","T">>
      [] v = "NUM"  -> <<"N","U","M">>
      [] v = "PRT"  -> <<"P","R","T">>
      [] v = "X"    -> <<"X">>
      [] v = "."    -> <<".">>
      [] v = "ART"  -> <<"A","R","T">>

\* An optional argument: None, or a string.
None == [none |-> TRUE, v |-> <<>>]
Some(s) == [none |-> FALSE, v |-> s]
\* Python truthiness of an optional string: None and '' are false.
truthy(o) == ~o.none /\ o.v # <<>>

\* The outcome of a call: a value, or the exception that left it.
Ok(v) == [err |-> "none", val |-> v]
Raise(e) == [err |-> e, val |-> <<>>]

(***************************************************************************)
(* Corpus (corpus.py) and its subclasses (portuguese.py).  A Corpus object *)
(* is a record of its attributes.  self.mapping is None or the dict that   *)
(* _universal_mapping() of a class returned (dict_at);                     *)
(* self.corpus is the reader: of the raw corpus, or of a file of the       *)
(* folder; an attribute that holds sentences holds a list, the reader's    *)
(* bound method tagged_sents, or a reference to a map object (an           *)
(* iterator of the heap `iters`).                                          *)
(***************************************************************************)

\* default_tag.setter: self._default_tag = default_tag if default_tag else 'X'
default_tag_setter(o) == IF truthy(o) THEN o.v ELSE <<"X">>

\* self.mapping when it is not None
NoMapping == [none |-> TRUE, of |-> "None"]
MappingOf(c) == [none |-> FALSE, of |-> c]
dict_at(m) == _universal_mapping(m.of)

\* Corpus.map_word_tag: try mapping[tag] except KeyError: default_tag.
\* Subscripting None raises TypeError, which is not caught.
Corpus_map_word_tag_nodefault(self, word_tag) ==
    IF self.mapping.none THEN Raise("TypeError")
    ELSE IF Str(word_tag[2]) \in DOMAIN dict_at(self.mapping)
         THEN Ok(<<word_tag[1], Chars(dict_at(self.mapping)[Str(word_tag[2])])>>)
         ELSE Ok(<<word_tag[1], word_tag[2]>>)
Corpus_map_word_tag(self, word_tag) ==
    IF self.mapping.none THEN Raise("TypeError")
    ELSE IF Str(word_tag[2]) \in DOMAIN dict_at(self.mapping)
         THEN Ok(<<word_tag[1], Chars(dict_at(self.mapping)[Str(word_tag[2])])>>)
         ELSE Ok(<<word_tag[1], self.default_tag>>)

\* Floresta._get_pos_tag: tag.split('+')[-1]
_get_pos_tag_first(tag) ==
    IF rfind(tag, "+") = 0 THEN tag
    ELSE SubSeq(tag, 1, (CHOOSE i \in 1..Len(tag) :
                           tag[i] = "+" /\ \A j \in 1..(i-1) : tag[j] # "+") - 1)
_get_pos_tag(tag) == split_last(tag, "+")

\* self.map_word_tag(word_tag): Floresta overrides it, the others inherit.
map_word_tag(self, word_tag) ==
    IF self.cls = "Floresta"
    THEN Corpus_map_word_tag(self, <<word_tag[1], _get_pos_tag(word_tag[2])>>)
    ELSE Corpus_map_word_tag(self, word_tag)

\* Corpus.map_sentence_tags: list(map(self.map_word_tag, sentence)); the
\* first exception leaves the call.
map_sentence_tags_reversed(self, sentence) ==
    IF \E i \in 1..Len(sentence) : map_word_tag(self, sentence[i]).err # "none"
    THEN Raise("TypeError")
    ELSE Ok([i \in 1..Len(sentence) |->
                map_word_tag(self, sentence[Len(sentence) + 1 - i]).val])
map_sentence_tags(self, sentence) ==
    IF \E i \in 1..Len(sentence) : map_word_tag(self, sentence[i]).err # "none"
    THEN Raise("TypeError")
    ELSE Ok([i \in 1..Len(sentence) |-> map_word_tag(self, sentence[i]).val])


(***************************************************************************)
(* The tagged file of the folder: Corpus.write writes it, NLTK's           *)
(* TaggedCorpusReader(sep='_', word_tokenizer=WhitespaceTokenizer()) reads *)
(* it.  A file's content is one string.                                    *)
(***************************************************************************)
RECURSIVE concat(_)
concat(ss) == IF ss = <<>> THEN <<>> ELSE Head(ss) \o concat(Tail(ss))

\* str.split(c), every piece kept
RECURSIVE split(_, _)
split(s, c) ==
    IF \A i \in 1..Len(s) : s[i] # c THEN <<s>>
    ELSE LET i == CHOOSE k \in 1..Len(s) :
                      s[k] = c /\ \A j \in 1..(k-1) : s[j] # c
         IN  <<SubSeq(s, 1, i - 1)>> \o split(SubSeq(s, i + 1, Len(s)), c)

\* the pieces of a list that are not empty, in order
RECURSIVE non_empty(_)
non_empty(ss) ==
    IF ss = <<>> THEN <<>>
    ELSE IF Head(ss) = <<>> THEN non_empty(Tail(ss))
    ELSE <<Head(ss)>> \o non_empty(Tail(ss))

\* Corpus.write: f'{word}_{tag} ' for each token, '\n' after each sentence
write(sents) ==
    concat([i \in 1..Len(sents) |->
        concat([j \in 1..Len(sents[i]) |->
            sents[i][j][1] \o <<"_">> \o sents[i][j][2] \o <<" ">>])
        \o <<"\n">>])

\* nltk.tag.str2tuple(s, sep='_'): split at the last sep, the tag
\* upper-cased; a token without sep has no tag (None, here the empty tag).
str2tuple(s) ==
    IF rfind(s, "_") = 0 THEN <<s, <<>>>>
    ELSE <<SubSeq(s, 1, rfind(s, "_") - 1),
           upper(SubSeq(s, rfind(s, "_") + 1, Len(s)))>>

\* TaggedCorpusReader.tagged_sents() of a file: a sentence per line that is
\* not blank, a token per whitespace-separated piece.
read_tagged_file(content) ==
    LET lines == non_empty([i \in 1..Len(split(content, "\n")) |->
                     non_empty(split(split(content, "\n")[i], " "))])
    IN  [i \in 1..Len(lines) |->
            [j \in 1..Len(lines[i]) |-> str2tuple(lines[i][j])]]

\* f'{self.__class__.__name__}_Universal.txt'; LacioWeb._to_universal
\* names it f'{self.__class__.__name__}_{self.name}_Universal.txt', and
\* name is '100' for the default corpus 'full'.
universal_filename(c) ==
    CASE c = "MacMorpho" -> "MacMorpho_Universal.txt"
      [] c = "Floresta"  -> "Floresta_Universal.txt"
      [] c = "LacioWeb"  -> "LacioWeb_100_Universal.txt"

FileIds == {universal_filename(c) : c \in Classes}
Absent == [exists |-> FALSE, content |-> <<>>]

\* What an attribute that holds sentences refers to.
Unset == [kind |-> "unset", id |-> 0]
EmptyList == [kind |-> "list", id |-> 0]
Method == [kind |-> "method", id |-> 0]
Iter(k) == [kind |-> "iter", id |-> k]

RawReader == [kind |-> "raw", fileid |-> ""]
FileReader(f) == [kind |-> "file", fileid |-> f]

\* self.corpus.tagged_sents()
tagged_sents_of(reader, c, rawc, fs) ==
    IF reader.kind = "raw" THEN rawc[c]
    ELSE read_tagged_file(fs[reader.fileid].content)

NoObject == [cls |-> "None", default_tag |-> <<>>, mapping |-> NoMapping,
             corpus |-> RawReader, mapped_tagged_sents |-> Unset,
             tagged_sents |-> Unset]


(***************************************************************************)
(* map objects.  map(f, xs) is a one-pass iterator: it holds the sequence  *)
(* it was built on and how much of it has been consumed; f is applied      *)
(* when an item is taken.                                                  *)
(***************************************************************************)
NewIter(sents) == [src |-> sents, pos |-> 0]

\* list(it) for the map object `it` of `self`: what is left, mapped; the
\* first exception leaves the call.
drain(self, it) ==
    LET left == SubSeq(it.src, it.pos + 1, Len(it.src))
    IN  IF \E i \in 1..Len(left) : map_sentence_tags(self, left[i]).err # "none"
        THEN Raise("TypeError")
        ELSE Ok([i \in 1..Len(left) |-> map_sentence_tags(self, left[i]).val])

\* the map object once it has been consumed to its end
exhausted(it) == [it EXCEPT !.pos = Len(it.src)]

\* Corpus.map_corpus_tags:
\*   return map(self.map_sentence_tags, self.corpus.tagged_sents())
\* The new map object is appended to the heap; ref refers to it.
map_corpus_tags_cached(self, heap, rawc, fs) ==
    IF self.mapped_tagged_sents.kind = "iter"
    THEN [heap |-> heap, ref |-> self.mapped_tagged_sents]
    ELSE [heap |-> Append(heap, NewIter(tagged_sents_of(self.corpus, self.cls, rawc, fs))),
          ref  |-> Iter(Len(heap) + 1)]
map_corpus_tags(self, heap, rawc, fs) ==
    [heap |-> Append(heap, NewIter(tagged_sents_of(self.corpus, self.cls, rawc, fs))),
     ref  |-> Iter(Len(heap) + 1)]

\* Corpus._to_universal(filename), with Corpus.write(filename) at its end.
\* The result is the object, the heap and the folder after the call.
_to_universal(self, heap, rawc, fs) ==
    LET fn == universal_filename(self.cls)
        s1 == [self EXCEPT !.mapping =
                  MappingOf(self.cls)]
    IN  IF fs[fn].exists
        THEN [obj   |-> [s1 EXCEPT !.corpus = FileReader(fn),
                                   !.tagged_sents = Method],
              heap  |-> heap,
              files |-> fs]
        ELSE LET m  == map_corpus_tags(s1, heap, rawc, fs)
                 s2 == [s1 EXCEPT !.mapped_tagged_sents = m.ref,
                                  !.tagged_sents = m.ref]
                 it == m.heap[m.ref.id]
             IN  [obj   |-> s2,
                  heap  |-> [m.heap EXCEPT ![m.ref.id] = exhausted(it)],
                  files |-> [fs EXCEPT ![fn] =
                               [exists |-> TRUE,
                                content |-> write(drain(s2, it).val)]]]

\* Corpus.__init__ as MacMorpho, Floresta and LacioWeb call it: no
\* default_tag, the corpus of NLTK or (LacioWeb._read_corpus) the reader of
\* the downloaded file; then _to_universal when universal is set.
Corpus_init(c, universal, rawc, fs) ==
    LET s0 == [cls |-> c,
               default_tag |-> default_tag_setter(None),
               mapping |-> NoMapping,
               corpus |-> RawReader,
               mapped_tagged_sents |-> EmptyList,
               tagged_sents |-> Unset]
    IN  IF universal
        THEN _to_universal(s0, <<>>, rawc, fs)
        ELSE [obj |-> s0, heap |-> <<>>, files |-> fs]

(***************************************************************************)
(* Corpora (corpora.py).                                                   *)
(***************************************************************************)
\* _clean(name): name.upper().replace(' ', '').replace('_', '')
_clean(name) == remove_char(remove_char(upper(name), " "), "_")

\* the dict of _validate_corpus_names, keyed by the cleaned name
corpus_classes == [MACMORPHO |-> "MacMorpho",
                   FLORESTA  |-> "Floresta",
                   LACIOWEB  |-> "LacioWeb"]

recognized(name) == Str(_clean(name)) \in DOMAIN corpus_classes

\* Corpora._validate_corpus_names: every name is replaced by its class; the
\* first KeyError becomes the Exception 'invalid corpus name'.
_validate_corpus_names_lenient(corpora) ==
    LET known == SelectSeq(corpora, recognized)
    IN  Ok([i \in 1..Len(known) |-> corpus_classes[Str(_clean(known[i]))]])
_validate_corpus_names(corpora) ==
    IF \E i \in 1..Len(corpora) : ~recognized(corpora[i])
    THEN Raise("Exception")
    ELSE Ok([i \in 1..Len(corpora) |-> corpus_classes[Str(_clean(corpora[i]))]])

\* Corpora._read_corpus for each class of the list, in order: the object is
\* constructed (which may write its file into the folder) and the
\* sentences of its reader are appended.  `constructed` lists the classes
\* whose constructor has run.
RECURSIVE read_corpora(_, _, _, _)
read_corpora(classes, universal, rawc, acc) ==
    IF classes = <<>> THEN acc
    ELSE LET made  == Corpus_init(Head(classes), universal, rawc, acc.files)
             sents == tagged_sents_of(made.obj.corpus, made.obj.cls, rawc, made.files)
         IN  read_corpora(Tail(classes), universal, rawc,
                 [sentences   |-> IF acc.sentences # <<>>
                                  THEN acc.sentences \o sents ELSE sents,
                  length      |-> acc.length + Len(sents),
                  files       |-> made.files,
                  constructed |-> Append(acc.constructed, Head(classes))])

\* Corpora.__init__(corpora, universal)
Corpora_init(corpora, universal, rawc, fs) ==
    LET start == [sentences |-> <<>>, length |-> 0, files |-> fs,
                  constructed |-> <<>>]
        valid == _validate_corpus_names(corpora)
    IN  IF valid.err # "none"
        THEN [err |-> valid.err, res |-> start]
        ELSE [err |-> "none",
              res |-> read_corpora(valid.val, universal, rawc, start)]


\* Corpora._get_words, Corpora._get_tags
_get_words(sentence) == [i \in 1..Len(sentence) |-> sentence[i][1]]
_get_tags(sentence) == [i \in 1..Len(sentence) |-> sentence[i][2]]

\* itertools.islice(iterable, start, stop), for 0 <= start
islice(iterable, start, stop) ==
    IF stop <= start THEN <<>>
    ELSE SubSeq(iterable, start + 1,
                IF stop < Len(iterable) THEN stop ELSE Len(iterable))

\* int((1 - test_size) * 100), test_size in hundredths: the subtraction
\* and the product of floats, truncated, give 100 - test_size for the
\* sizes of TestSizes (0.99: 1 - 0.99 = 0.010000000000000009, int 1)
int_train_size_100(test_size) == 100 - test_size

\* Corpora.train_test_split(test_size): the four parts, each as the list
\* its map object yields; len(None) is a TypeError when no corpus was read
train_test_split(sentences, read, test_size) ==
    IF ~read THEN Raise("TypeError")
    ELSE IF int_train_size_100(test_size) = 0 THEN Raise("ZeroDivisionError")
    ELSE LET total_size == Len(sentences)
             cut == total_size \div int_train_size_100(test_size)
             words(part) == [i \in 1..Len(part) |-> _get_words(part[i])]
             tags(part) == [i \in 1..Len(part) |-> _get_tags(part[i])]
         IN  Ok([x_train |-> words(islice(sentences, 0, cut)),
                 x_test  |-> words(islice(sentences, cut, total_size)),
                 y_train |-> tags(islice(sentences, 0, cut)),
                 y_test  |-> tags(islice(sentences, cut, total_size))])

(***************************************************************************)
(* The sequence of backoff taggers (tagger.py).  A tagger of nltk is a     *)
(* record; the taggers of one build are kept in the list `taggers` of      *)
(* _create_tagger_sequence and name each other by their position in it     *)
(* (0: no backoff).  None of Python is the record None of this module.     *)
(***************************************************************************)
\* str.replace(sub, '')
RECURSIVE remove_sub(_, _)
remove_sub(s, sub) ==
    IF Len(s) < Len(sub) THEN s
    ELSE IF SubSeq(s, 1, Len(sub)) = sub
         THEN remove_sub(SubSeq(s, Len(sub) + 1, Len(s)), sub)
         ELSE <<Head(s)>> \o remove_sub(Tail(s), sub)

\* _clean(name) of _tagger_names:
\* name.upper().replace('TAGGER', '').replace(' ', '')
_tagger_names_clean_cased(name) ==
    remove_char(remove_sub(name, <<"T","A","G","G","E","R">>), " ")
_tagger_names_clean(name) ==
    remove_char(remove_sub(upper(name), <<"T","A","G","G","E","R">>), " ")

\* the dict `mapping` of _tagger_names, keyed by the cleaned name
mapping == [DEFAULT |-> "DefaultTagger",
            UNIGRAM |-> "UnigramTagger",
            BIGRAM  |-> "BigramTagger",
            TRIGRAM |-> "TrigramTagger",
            NGRAM   |-> "NgramTagger",
            AFFIX   |-> "AffixTagger",
            REGEX   |-> "RegexpTagger",
            REGEXP  |-> "RegexpTagger"]

reversed(s) == [i \in 1..Len(s) |-> s[Len(s) + 1 - i]]

\* the sequence setter: the six names of the default when given None
default_sequence ==
    << <<"t","r","i","g","r","a","m">>, <<"b","i","g","r","a","m">>,
       <<"u","n","i","g","r","a","m">>, <<"r","e","g","e","x">>,
       <<"a","f","f","i","x">>, <<"d","e","f","a","u","l","t">> >>
sequence_setter(value) == IF value.none THEN default_sequence ELSE value.v

\* SequenceBackoffTagger._tagger_names: the classes of the names, reversed
\* when asked; a name out of `mapping` (KeyError) becomes an Exception.
_tagger_names_lenient(sequence, reverse) ==
    LET known(name) == Str(_tagger_names_clean(name)) \in DOMAIN mapping
        taggers == [i \in 1..Len(SelectSeq(sequence, known)) |->
                       mapping[Str(_tagger_names_clean(
                                       SelectSeq(sequence, known)[i]))]]
    IN  Ok(IF reverse THEN reversed(taggers) ELSE taggers)
_tagger_names_unreversed(sequence, reverse) ==
    IF \E i \in 1..Len(sequence) :
           Str(_tagger_names_clean(sequence[i])) \notin DOMAIN mapping
    THEN Raise("Exception")
    ELSE Ok([i \in 1..Len(sequence) |->
                mapping[Str(_tagger_names_clean(sequence[i]))]])
_tagger_names_doubled(sequence, reverse) ==
    IF \E i \in 1..Len(sequence) :
           Str(_tagger_names_clean(sequence[i])) \notin DOMAIN mapping
    THEN Raise("Exception")
    ELSE LET taggers == [i \in 1..Len(sequence) |->
                            mapping[Str(_tagger_names_clean(sequence[i]))]]
         IN  Ok((IF reverse THEN reversed(taggers) ELSE taggers)
                \o (IF reverse THEN reversed(taggers) ELSE taggers))
_tagger_names(sequence, reverse) ==
    IF \E i \in 1..Len(sequence) :
           Str(_tagger_names_clean(sequence[i])) \notin DOMAIN mapping
    THEN Raise("Exception")
    ELSE LET taggers == [i \in 1..Len(sequence) |->
                            mapping[Str(_tagger_names_clean(sequence[i]))]]
         IN  Ok(IF reverse THEN reversed(taggers) ELSE taggers)

\* the setters of the hyperparameters: `value if value else <default>`
tagger_default_tag_setter(value) ==
    IF truthy(value) THEN value.v ELSE <<"N","O","U","N">>
ngram_size_setter(value) == IF ~value.none /\ value.v # 0 THEN value.v ELSE 4
affix_length_setter(value) == IF ~value.none /\ value.v # 0 THEN value.v ELSE 3
min_stem_length_setter(value) == IF ~value.none /\ value.v # 0 THEN value.v ELSE 2
patterns == << <<"^-?\\d+(.\\d+)?$", <<"N","U","M">> >> >>
regexps_setter(value) == IF truthy(value) THEN value.v ELSE patterns

\* the ngram_size getter evaluates self._ngram_size and returns nothing
ngram_size_getter(self) == None

\* the parameters of each nltk constructor after self
\* (cls.__init__.__code__.co_varnames[1:argcount])
co_varnames(cls) ==
    CASE cls = "DefaultTagger" -> {"tag"}
      [] cls \in {"UnigramTagger", "BigramTagger", "TrigramTagger"} ->
            {"train", "model", "backoff", "cutoff", "verbose"}
      [] cls = "NgramTagger" ->
            {"n", "train", "model", "backoff", "cutoff", "verbose"}
      [] cls = "AffixTagger" ->
            {"train", "model", "affix_length", "min_stem_length", "backoff",
             "cutoff", "verbose"}
      [] cls = "RegexpTagger" -> {"regexps", "backoff"}

\* SequenceBackoffTagger._inspect_tagger_constructor_args
_inspect_every_default(cls, defaults) == defaults
_inspect_tagger_constructor_args(cls, defaults) ==
    [key \in {k \in co_varnames(cls) : k \in DOMAIN defaults} |-> defaults[key]]

(***************************************************************************)
(* The taggers of nltk that `mapping` names.                               *)
(***************************************************************************)
Digits == {"0", "1", "2", "3", "4", "5", "6", "7", "8", "9"}
all_digits(s) == s # <<>> /\ \A i \in 1..Len(s) : s[i] \in Digits

\* re.match(r'^-?\d+(.\d+)?$', token)
match_number(token) ==
    LET ends  == IF token # <<>> /\ token[Len(token)] = "\n"
                 THEN {token, SubSeq(token, 1, Len(token) - 1)}
                 ELSE {token}
        body(s) == IF s # <<>> /\ Head(s) = "-" THEN Tail(s) ELSE s
    IN  \E s \in ends :
           LET r == body(s)
           IN  \/ all_digits(r)
               \/ \E k \in 1..(Len(r) - 2) :
                     /\ all_digits(SubSeq(r, 1, k))
                     /\ r[k + 1] # "\n"
                     /\ all_digits(SubSeq(r, k + 2, Len(r)))

\* re.match(regexp, token), for the patterns of this model
re_match(regexp, token) ==
    CASE regexp = "^-?\\d+(.\\d+)?$" -> match_number(token)
      [] regexp = ".*" -> TRUE

Node(cls, backoff) ==
    [cls |-> cls, backoff |-> backoff, tag |-> <<>>, n |-> 0,
     affix_length |-> 0, min_word_length |-> 0, regexps |-> <<>>,
     context_to_tag |-> <<>>]

Max(a, b) == IF a > b THEN a ELSE b

\* context(tokens, index, history) of UnigramTagger (the token), of
\* NgramTagger (the n-1 tags before, and the token) and of AffixTagger
\* (the prefix or suffix of a token that is long enough, None otherwise)
context(self, tokens, index, history) ==
    CASE self.cls = "UnigramTagger" -> Some(tokens[index])
      [] self.cls \in {"BigramTagger", "TrigramTagger", "NgramTagger"} ->
            Some(<<SubSeq(history, Max(0, index - self.n) + 1, index - 1),
                   tokens[index]>>)
      [] self.cls = "AffixTagger" ->
            LET token == tokens[index]
            IN  IF Len(token) < self.min_word_length THEN None
                ELSE IF self.affix_length > 0
                THEN Some(SubSeq(token, 1, self.affix_length))
                ELSE Some(SubSeq(token,
                                 Max(0, Len(token) + self.affix_length) + 1,
                                 Len(token)))

\* choose_tag(tokens, index, history): the tag of DefaultTagger, the tag
\* of the first pattern of RegexpTagger that matches, the tag the table of
\* a ContextTagger has for the context; None otherwise
first_match(regexps, token) ==
    LET tag_of(hits) ==
            IF hits = {} THEN None
            ELSE Some(regexps[CHOOSE i \in hits : \A j \in hits : i <= j][2])
    IN  tag_of({i \in 1..Len(regexps) : re_match(regexps[i][1], token)})

choose_tag(self, tokens, index, history) ==
    CASE self.cls = "DefaultTagger" -> Some(self.tag)
      [] self.cls = "RegexpTagger" -> first_match(self.regexps, tokens[index])
      [] OTHER ->
            LET get(c) == IF ~c.none /\ c.v \in DOMAIN self.context_to_tag
                          THEN Some(self.context_to_tag[c.v])
                          ELSE None
            IN  get(context(self, tokens, index, history))

\* SequentialBackoffTagger.tag_one: the first tag that is not None among
\* the tagger and its backoffs, in order; None when there is none
RECURSIVE tag_one(_, _, _, _, _)
tag_one_nobackoff(taggers, k, tokens, index, history) ==
    choose_tag(taggers[k], tokens, index, history)
tag_one(taggers, k, tokens, index, history) ==
    LET or_backoff(tag) ==
            IF ~tag.none \/ taggers[k].backoff = 0 THEN tag
            ELSE tag_one(taggers, taggers[k].backoff, tokens, index, history)
    IN  or_backoff(choose_tag(taggers[k], tokens, index, history))

\* SequentialBackoffTagger.tag: the tokens, each with the tag of tag_one
\* given the tags found before it
RECURSIVE tag_from(_, _, _, _)
tag_from(taggers, k, tokens, tags) ==
    IF Len(tags) = Len(tokens) THEN tags
    ELSE tag_from(taggers, k, tokens,
                  Append(tags, tag_one(taggers, k, tokens, Len(tags) + 1, tags)))
tag(taggers, k, tokens) ==
    LET zip(tags) == [i \in 1..Len(tokens) |-> <<tokens[i], tags[i]>>]
    IN  zip(tag_from(taggers, k, tokens, <<>>))

\* ContextTagger._train, one token (sentence s, position i): its context
\* given the tags before it, its tag, and whether the backoff gives another
counted_at(self, taggers, sentence, i) ==
    LET tokens  == [j \in 1..Len(sentence) |-> sentence[j][1]]
        history == [j \in 1..(i - 1) |-> Some(sentence[j][2])]
    IN  [context |-> context(self, tokens, i, history),
         tag     |-> sentence[i][2],
         useful  |-> \/ self.backoff = 0
                     \/ Some(sentence[i][2]) #
                            tag_one(taggers, self.backoff, tokens, i, history)]

\* fd[context].max(): the most frequent tag of a context, the one counted
\* first among equals
best_tag(counts, c) ==
    LET occ(t) == {p \in DOMAIN counts :
                      counts[p].context = Some(c) /\ counts[p].tag = t}
        before(p, q) == p[1] < q[1] \/ (p[1] = q[1] /\ p[2] <= q[2])
        first(t) == CHOOSE p \in occ(t) : \A q \in occ(t) : before(p, q)
        tags_of == {counts[p].tag : p \in {q \in DOMAIN counts :
                                              counts[q].context = Some(c)}}
    IN  CHOOSE t \in tags_of : \A u \in tags_of :
            \/ Cardinality(occ(t)) > Cardinality(occ(u))
            \/ /\ Cardinality(occ(t)) = Cardinality(occ(u))
               /\ before(first(t), first(u))

\* the table of the contexts kept: those of which some occurrence has a
\* tag the backoff does not give (cutoff 0: every count is above it)
context_to_tag(counts) ==
    [c \in {counts[p].context.v :
               p \in {q \in DOMAIN counts :
                         ~counts[q].context.none /\ counts[q].useful}} |->
        best_tag(counts, c)]

\* ContextTagger._train (cutoff 0)
_train(self, taggers, tagged_corpus) ==
    context_to_tag(
        [p \in UNION {{<<s, i>> : i \in 1..Len(tagged_corpus[s])} :
                         s \in 1..Len(tagged_corpus)} |->
            counted_at(self, taggers, tagged_corpus[p[1]], p[2])])

\* training a ContextTagger: zip(*sentence) fails on an empty sentence
\* (ValueError), and the context of an NgramTagger whose n is None cannot be
\* computed (TypeError: index - None)
trained(self, n, taggers, train) ==
    IF n.none
    THEN Raise(IF train[1] = <<>> THEN "ValueError" ELSE "TypeError")
    ELSE IF \E s \in 1..Len(train) : train[s] = <<>>
    THEN Raise("ValueError")
    ELSE Ok([self EXCEPT !.n = n.v,
                         !.context_to_tag = _train([self EXCEPT !.n = n.v],
                                                   taggers, train)])

\* cls(**cls_args): the constructors of nltk.  A ContextTagger without
\* training data fails in _check_params (ValueError) and is trained in its
\* constructor otherwise; DefaultTagger takes a tag and nothing else.
construct_untrained(cls, cls_args, taggers) ==
    Ok([Node(cls, IF "backoff" \in DOMAIN cls_args THEN cls_args.backoff ELSE 0)
           EXCEPT !.tag = IF "tag" \in DOMAIN cls_args
                          THEN cls_args.tag ELSE <<>>])
construct(cls, cls_args, taggers) ==
    LET self == Node(cls, IF "backoff" \in DOMAIN cls_args
                          THEN cls_args.backoff ELSE 0)
        abs(x) == IF x < 0 THEN 0 - x ELSE x
    IN  CASE cls = "DefaultTagger" -> Ok([self EXCEPT !.tag = cls_args.tag])
          [] cls = "RegexpTagger" ->
                Ok([self EXCEPT !.regexps = cls_args.regexps])
          [] OTHER ->
                IF cls_args.train = <<>> THEN Raise("ValueError")
                ELSE trained(IF cls = "AffixTagger"
                             THEN [self EXCEPT
                                     !.affix_length = cls_args.affix_length,
                                     !.min_word_length =
                                         cls_args.min_stem_length
                                         + abs(cls_args.affix_length)]
                             ELSE self,
                             CASE cls = "UnigramTagger" -> Some(1)
                               [] cls = "BigramTagger" -> Some(2)
                               [] cls = "TrigramTagger" -> Some(3)
                               [] cls = "NgramTagger" -> cls_args.n
                               [] cls = "AffixTagger" -> Some(0),
                             taggers, cls_args.train)

\* self.defaults['backoff'] = taggers[-1], once a tagger is built
with_backoff(defaults, taggers) ==
    IF taggers # <<>>
    THEN [k \in DOMAIN defaults \cup {"backoff"} |->
             IF k = "backoff" THEN Len(taggers) ELSE defaults[k]]
    ELSE defaults

\* the loop of _create_tagger_sequence; `calls` lists the constructor
\* calls made, each with its class and its keyword arguments
RECURSIVE create_taggers(_, _, _, _)
create_taggers(classes, defaults, taggers, calls) ==
    IF classes = <<>>
    THEN [err |-> "none", taggers |-> taggers, defaults |-> defaults,
          calls |-> calls]
    ELSE LET d == with_backoff(defaults, taggers)
             call(cls_args) ==
                 LET append(made) ==
                         LET called == Append(calls, [cls |-> Head(classes),
                                                      cls_args |-> cls_args])
                         IN  IF made.err # "none"
                             THEN [err |-> made.err, taggers |-> taggers,
                                   defaults |-> d, calls |-> called]
                             ELSE create_taggers(Tail(classes), d,
                                                 Append(taggers, made.val),
                                                 called)
                 IN  append(construct(Head(classes), cls_args, taggers))
         IN  call(_inspect_tagger_constructor_args(Head(classes), d))

\* SequenceBackoffTagger._create_tagger_sequence: the last tagger built is
\* returned (taggers[-1]; IndexError when none was built)
_create_tagger_sequence(sequence, reverse, defaults) ==
    LET last(made) ==
            IF made.err = "none" /\ made.taggers = <<>>
            THEN [made EXCEPT !.err = "IndexError"]
            ELSE made
        create(classes) ==
            IF classes.err # "none"
            THEN [err |-> classes.err, taggers |-> <<>>, defaults |-> defaults,
                  calls |-> <<>>]
            ELSE last(create_taggers(classes.val, defaults, <<>>, <<>>))
    IN  create(_tagger_names(sequence, reverse))

NoTagger == [err |-> "none", built |-> FALSE, taggers |-> <<>>, tagger |-> 0,
             defaults |-> <<>>, calls |-> <<>>]

\* SequenceBackoffTagger.__init__ with tagger=None: the setters (train
\* raises an Exception on None), the dict defaults, the taggers, then
\* Tagger.__init__, which loads the sentence tokenizer (ValueError when the
\* punkt model of the language cannot be found)
SequenceBackoffTagger_init(args, punkt) ==
    LET init(made) ==
            [err      |-> IF made.err = "none" /\ ~punkt
                          THEN "ValueError" ELSE made.err,
             built    |-> made.err = "none" /\ punkt,
             taggers  |-> made.taggers,
             tagger   |-> IF made.err = "none" THEN Len(made.taggers) ELSE 0,
             defaults |-> made.defaults,
             calls    |-> made.calls]
    IN  IF args.train.none THEN [NoTagger EXCEPT !.err = "Exception"]
        ELSE init(_create_tagger_sequence(
                 sequence_setter(args.sequence), args.reverse,
                 [train           |-> args.train.v,
                  tag             |-> tagger_default_tag_setter(args.default_tag),
                  n               |-> ngram_size_getter(
                                          ngram_size_setter(args.ngram_size)),
                  affix_length    |-> affix_length_setter(args.affix_length),
                  min_stem_length |-> min_stem_length_setter(args.min_stem_length),
                  regexps         |-> regexps_setter(args.regexps)]))

(***************************************************************************)
(* State.                                                                  *)
(***************************************************************************)
VARIABLES
    raw,     \* the sentences each raw corpus reader yields, by class
    files,   \* the folder 'corpus': the mapped file of each class
    obj,     \* the Corpus object the caller holds (NoObject before any)
    iters,   \* the heap of map objects made for obj
    held,    \* what the caller's last map_corpus_tags() call returned
    runs,    \* the results of list(obj.map_corpus_tags()), in call order
    ret,     \* the last call: its name, its argument, its outcome
    input,   \* the arguments the caller has for Corpora / SequenceBackoffTagger
    tagger   \* the SequenceBackoffTagger the caller holds (NoTagger before any)

corpusVars == <<raw, files, obj, iters, held, runs, ret>>

(***************************************************************************)
(* Inputs.                                                                 *)
(***************************************************************************)
MaxRuns == 2

Words == {<<"o">>, <<"e", "m">>}

\* source tags: keys of the tables, compound tags, tags of no table
SampleTags(c) ==
    CASE c = "None"      -> {}
      [] c = "MacMorpho" -> {<<"A","R","T">>, <<"P","R","E","P","|","+">>,
                             <<"N","P","R","O">>, <<"Z","Z">>}
      [] c = "Floresta"  -> {<<"H","+","p","r","p","-">>, <<"P","+","v","p">>,
                             <<"n">>, <<"H","+","n","+","a","d","j">>,
                             <<"a","d","v","+">>, <<"n","+","z","z">>}
      [] c = "LacioWeb"  -> {<<"P","R","E","P","+","A","R","T">>, <<"A","U","X">>,
                             <<"N">>, <<"Q","Q">>}

\* the raw corpora: two per class, as lists of sentences of (word, tag)
RawCorpora(c) ==
    CASE c = "MacMorpho" ->
           << << << << <<"o">>, <<"A","R","T">> >>,
                       << <<"e","m">>, <<"P","R","E","P","|","+">> >> >> >>,
              << << << <<"o">>, <<"N">> >> >>,
                 << << <<"e","m">>, <<"Z","Z">> >> >> >> >>
      [] c = "Floresta" ->
           << << << << <<"e","m">>, <<"H","+","p","r","p","-">> >>,
                       << <<"o">>, <<"P","+","v","p">> >> >> >>,
              << << << <<"o">>, <<"H","+","n">> >> >>,
                 << << <<"e","m">>, <<"n","+","z","z">> >> >> >> >>
      [] c = "LacioWeb" ->
           << << << << <<"e","m">>, <<"P","R","E","P","+","A","R","T">> >>,
                       << <<"o">>, <<"N">> >> >> >>,
              << << << <<"o">>, <<"A","U","X">> >> >>,
                 << << <<"e","m">>, <<"Q","Q">> >> >> >> >>

\* sentences handed to map_sentence_tags: the raw ones and the empty one
SampleSentences(c) ==
    IF c = "None" THEN {}
    ELSE {<<>>} \cup {RawCorpora(c)[k][i] : k \in 1..2, i \in 1..1}

\* default tags a caller sets: None, '' and a tag of the universal tagset
DefaultTagArgs == {None, Some(<<>>), Some(<<"N","O","U","N">>)}

\* corpus names handed to Corpora
CorpusNames == {<<"M","a","c","_","M","o","r","p","h","o">>,
                <<"f","l","o","r","e","s","t","a">>,
                <<"l","a","c","i","o"," ","w","e","b">>,
                <<"b","r","o","w","n">>}

NameLists == UNION {[1..n -> CorpusNames] : n \in 0..MaxNames}

Call(op, arg, out) == [op |-> op, arg |-> arg, out |-> out]

(***************************************************************************)
(* Initial state: a folder with no mapped file, no object constructed.     *)
(***************************************************************************)
CorpusInit ==
    /\ \E k \in 1..2 : raw = [c \in Classes |-> RawCorpora(c)[k]]
    /\ files = [f \in FileIds |-> Absent]
    /\ obj = NoObject
    /\ iters = <<>>
    /\ held = Unset
    /\ runs = <<>>
    /\ ret = Call("none", <<>>, Ok(<<>>))

NoInput == [for |-> "none"]

(***************************************************************************)
(* Operations.                                                             *)
(***************************************************************************)
\* obj = MacMorpho(universal=u), Floresta(universal=u), LacioWeb(universal=u)
New(c, u) ==
    LET made == Corpus_init(c, u, raw, files)
    IN  /\ obj' = made.obj
        /\ iters' = made.heap
        /\ files' = made.files
        /\ held' = Unset
        /\ runs' = <<>>
        /\ ret' = Call("__init__", <<c, u>>, Ok(<<>>))
        /\ UNCHANGED <<raw, input, tagger>>

\* obj.default_tag = o
SetDefaultTag(o) ==
    /\ obj.cls # "None"
    /\ obj' = [obj EXCEPT !.default_tag = default_tag_setter(o)]
    /\ ret' = Call("default_tag", o, Ok(<<>>))
    /\ UNCHANGED <<raw, files, iters, held, runs, input, tagger>>

\* Corpus.map_word_tag(obj, word_tag), the method of the base class
CallCorpusMapWordTag(word_tag) ==
    /\ obj.cls # "None"
    /\ ret' = Call("Corpus.map_word_tag", word_tag, Corpus_map_word_tag(obj, word_tag))
    /\ UNCHANGED <<raw, files, obj, iters, held, runs, input, tagger>>

\* obj.map_word_tag(word_tag)
CallMapWordTag(word_tag) ==
    /\ obj.cls # "None"
    /\ ret' = Call("map_word_tag", word_tag, map_word_tag(obj, word_tag))
    /\ UNCHANGED <<raw, files, obj, iters, held, runs, input, tagger>>

\* obj.map_sentence_tags(sentence)
CallMapSentenceTags(sentence) ==
    /\ obj.cls # "None"
    /\ ret' = Call("map_sentence_tags", sentence, map_sentence_tags(obj, sentence))
    /\ UNCHANGED <<raw, files, obj, iters, held, runs, input, tagger>>

\* held = obj.map_corpus_tags()
CallMapCorpusTags ==
    /\ obj.cls # "None"
    /\ held = Unset
    /\ LET m == map_corpus_tags(obj, iters, raw, files)
       IN  /\ iters' = m.heap
           /\ held' = m.ref
    /\ ret' = Call("map_corpus_tags", <<>>, Ok(<<>>))
    /\ UNCHANGED <<raw, files, obj, runs, input, tagger>>

\* list(obj.map_corpus_tags()): the map object is made, consumed and dropped
RunMapCorpusTags ==
    /\ obj.cls # "None"
    /\ Len(runs) < MaxRuns
    /\ LET m   == map_corpus_tags(obj, iters, raw, files)
           out == drain(obj, m.heap[m.ref.id])
       IN  /\ runs' = Append(runs, [default_tag |-> obj.default_tag, out |-> out])
           /\ iters' = IF m.ref.id > Len(iters) THEN iters
                       ELSE [iters EXCEPT ![m.ref.id] = exhausted(iters[m.ref.id])]
           /\ ret' = Call("list(map_corpus_tags)", <<>>, out)
    /\ UNCHANGED <<raw, files, obj, held, input, tagger>>

\* what the caller can traverse: held, obj.mapped_tagged_sents, obj.tagged_sents
Target(which) ==
    CASE which = "held"                -> held
      [] which = "mapped_tagged_sents" -> obj.mapped_tagged_sents
      [] which = "tagged_sents"        -> obj.tagged_sents

\* list(x) for x one of them (obj.tagged_sents() when it is the reader's
\* method): a map object is consumed by it
Traverse(which) ==
    /\ obj.cls # "None"
    /\ Target(which).kind # "unset"
    /\ LET x == Target(which)
       IN  CASE x.kind = "iter" ->
                  /\ ret' = Call("list", which, drain(obj, iters[x.id]))
                  /\ iters' = [iters EXCEPT ![x.id] = exhausted(iters[x.id])]
             [] x.kind = "list" ->
                  /\ ret' = Call("list", which, Ok(<<>>))
                  /\ UNCHANGED iters
             [] x.kind = "method" ->
                  /\ ret' = Call("list", which,
                                 Ok(tagged_sents_of(obj.corpus, obj.cls, raw, files)))
                  /\ UNCHANGED iters
    /\ UNCHANGED <<raw, files, obj, held, runs, input, tagger>>

\* the entry of the table of MacMorpho.to_universal for a tag it holds
CallToUniversal(source_tag) ==
    /\ Str(source_tag) \in DOMAIN to_universal
    /\ ret' = Call("to_universal", source_tag,
                   Ok(Chars(to_universal[Str(source_tag)])))
    /\ UNCHANGED <<raw, files, obj, iters, held, runs, input, tagger>>

\* Corpora(input.corpora, universal=input.universal)
NewCorpora ==
    /\ input.for = "Corpora"
    /\ \E made \in {Corpora_init(input.corpora, input.universal, raw, files)} :
        /\ ret' = Call("Corpora", <<input.corpora, input.universal>>,
                       [err |-> made.err,
                        val |-> [sentences   |-> made.res.sentences,
                                 length      |-> made.res.length,
                                 constructed |-> made.res.constructed]])
        /\ files' = made.res.files
    /\ UNCHANGED <<raw, obj, iters, held, runs, input, tagger>>

\* test sizes, in hundredths: 0.0, the default 0.3, 0.5, 0.99 and 1.0
TestSizes == {0, 30, 50, 99, 100}

\* corpora = Corpora(...) has just returned;
\* corpora.train_test_split(test_size)
CallTrainTestSplit(test_size) ==
    /\ ret.op = "Corpora"
    /\ ret.out.err = "none"
    /\ ret' = Call("train_test_split",
                   [sentences |-> ret.out.val.sentences,
                    read      |-> ret.out.val.constructed # <<>>,
                    test_size |-> test_size],
                   train_test_split(ret.out.val.sentences,
                                    ret.out.val.constructed # <<>>,
                                    test_size))
    /\ UNCHANGED <<raw, files, obj, iters, held, runs, input, tagger>>

(***************************************************************************)
(* Inputs of the taggers.                                                  *)
(***************************************************************************)
MaxSeqLen == 2
MaxSentLen == 2

\* names of taggers as the caller may spell them
TaggerNames == {<<"D","e","f","a","u","l","t">>,
                <<"U","n","i","g","r","a","m">>,
                <<"B","i","g","r","a","m">>}

\* declared sequences: every list of MaxSeqLen names at most, None (the
\* default of six), the four of the documentation, and lists with other
\* classes, without a Default, with a name of no class, or with names
\* spelled with a space or with 'tagger' in front
Sequences ==
    {Some(s) : s \in UNION {[1..n -> TaggerNames] : n \in 0..MaxSeqLen}}
    \cup {None,
          Some(<<<<"T","r","i","g","r","a","m">>, <<"B","i","g","r","a","m">>, <<"U","n","i","g","r","a","m">>, <<"D","e","f","a","u","l","t">>>>),
          Some(<<<<"n","g","r","a","m">>, <<"d","e","f","a","u","l","t">>>>),
          Some(<<<<"r","e","g","e","x","p"," ","t","a","g","g","e","r">>, <<"A","f","f","i","x","T","a","g","g","e","r">>, <<"u","n","i","g","r","a","m">>>>),
          Some(<<<<"h","m","m">>, <<"d","e","f","a","u","l","t">>>>),
          Some(<<<<"d","e","f","a","u","l","t">>, <<"h","m","m">>>>),
          Some(<<<<"u","n","i"," ","g","r","a","m">>, <<"t","a","g","g","e","r","D","e","f","a","u","l","t">>>>)}

\* training data: none, an empty list, two tagged sentences
Train ==
    {None, Some(<<>>),
     Some(<< << <<<<"o">>, <<"D","E","T">>>>, <<<<"c","a","s","a","s">>, <<"N","O","U","N">>>> >>,
             << <<<<"o">>, <<"P","R","O","N">>>>, <<<<"c","a","s","a","s">>, <<"V","E","R","B">>>> >> >>)}

TrainWords(train) ==
    UNION {{train[s][i][1] : i \in 1..Len(train[s])} : s \in 1..Len(train)}

\* the default tag and the hyperparameters: all left out, all given, all
\* given as a value that is not None and that Python takes for false
\* (NoInt: None where an integer may be given)
NoInt == [none |-> TRUE, v |-> 0]
Hyper ==
    {[default_tag |-> None, ngram_size |-> NoInt, affix_length |-> NoInt,
      min_stem_length |-> NoInt, regexps |-> None],
     [default_tag |-> Some(<<"X">>), ngram_size |-> Some(2),
      affix_length |-> Some(0 - 1), min_stem_length |-> Some(1),
      regexps |-> Some(<< <<".*", <<"X">> >> >>)],
     [default_tag |-> Some(<<>>), ngram_size |-> Some(0),
      affix_length |-> Some(0), min_stem_length |-> Some(0),
      regexps |-> Some(<<>>)]}

\* tokens of the sentences to tag: one of the training data, two that are
\* not, one of them a number
Tokens == {<<"o">>, <<"c","a","s","a","l">>, <<"4","2">>}
Sentences == UNION {[1..n -> Tokens] : n \in 0..MaxSentLen}

TaggerInit ==
    /\ raw = [c \in Classes |-> RawCorpora(c)[1]]
    /\ files = [f \in FileIds |-> Absent]
    /\ obj = NoObject
    /\ iters = <<>>
    /\ held = Unset
    /\ runs = <<>>
    /\ ret = Call("none", <<>>, Ok(<<>>))
    /\ tagger = NoTagger
    /\ \E sequence \in Sequences, reverse \in BOOLEAN, train \in Train,
          hyper \in Hyper :
          input = [for |-> "SequenceBackoffTagger", sequence |-> sequence,
                   reverse |-> reverse, train |-> train,
                   default_tag |-> hyper.default_tag,
                   ngram_size |-> hyper.ngram_size, regexps |-> hyper.regexps,
                   affix_length |-> hyper.affix_length,
                   min_stem_length |-> hyper.min_stem_length]

\* tagger = SequenceBackoffTagger(input.sequence, reverse=input.reverse,
\* train=input.train, ...); the punkt model is there or is not
NewSequenceBackoffTagger ==
    /\ input.for = "SequenceBackoffTagger"
    /\ \E punkt \in BOOLEAN :
        \E made \in {SequenceBackoffTagger_init(input, punkt)} :
            /\ tagger' = made
            /\ ret' = Call("SequenceBackoffTagger", <<>>,
                           IF made.err = "none" THEN Ok(<<>>)
                           ELSE Raise(made.err))
    /\ UNCHANGED <<raw, files, obj, iters, held, runs, input>>

\* tagger.tag_tokenized(sentence): self.tagger.tag(sentence)
CallTagTokenized(sentence) ==
    /\ tagger.built
    /\ ret' = Call("tag_tokenized", sentence,
                   Ok(tag(tagger.taggers, tagger.tagger, sentence)))
    /\ UNCHANGED <<raw, files, obj, iters, held, runs, input, tagger>>

\* the object and its pure methods
CallsNext ==
    \/ \E c \in Classes, u \in BOOLEAN : New(c, u)
    \/ \E o \in DefaultTagArgs : SetDefaultTag(o)
    \/ \E w \in Words, t \in SampleTags(obj.cls) : CallCorpusMapWordTag(<<w, t>>)
    \/ \E w \in Words, t \in SampleTags(obj.cls) : CallMapWordTag(<<w, t>>)
    \/ \E s \in SampleSentences(obj.cls) : CallMapSentenceTags(s)
    \/ \E t \in SampleTags("MacMorpho") : CallToUniversal(t)

\* the object and the map objects of its corpus
ItersNext ==
    \/ \E c \in Classes, u \in BOOLEAN : New(c, u)
    \/ \E o \in DefaultTagArgs : SetDefaultTag(o)
    \/ CallMapCorpusTags
    \/ RunMapCorpusTags
    \/ \E which \in {"held", "mapped_tagged_sents", "tagged_sents"} : Traverse(which)

\* the collection of corpora, constructed (again and again) on one list
CorporaNext == NewCorpora

vars == <<corpusVars, input, tagger>>

Init == CorpusInit /\ input = NoInput /\ tagger = NoTagger
Next == CallsNext
Spec == Init /\ [][Next]_vars
SpecIters == Init /\ [][ItersNext]_vars

CorporaInit ==
    /\ CorpusInit
    /\ tagger = NoTagger
    /\ \E names \in NameLists, u \in BOOLEAN :
          input = [for |-> "Corpora", corpora |-> names, universal |-> u]
SpecCorpora == CorporaInit /\ [][CorporaNext]_vars

\* the collection of corpora, constructed and then split
SplitNext ==
    \/ NewCorpora
    \/ \E test_size \in TestSizes : CallTrainTestSplit(test_size)
SpecSplit == CorporaInit /\ [][SplitNext]_vars

\* the sequence of taggers: built on one set of arguments, then tagging
TaggerNext ==
    \/ NewSequenceBackoffTagger
    \/ \E sentence \in Sentences : CallTagTokenized(sentence)
SpecTagger == TaggerInit /\ [][TaggerNext]_vars

(***************************************************************************)
(* Tagger (tagger.py): the methods that tag, on the tagger built, and the  *)
(* evaluation of its tags against the tags of a test set.                  *)
(***************************************************************************)
\* the arguments of Tagger.tag: Python values with their type, a str or a
\* list of values (PyInt: a value that is neither)
PyStr(s) == [type |-> "str", v |-> s]
PyList(items) == [type |-> "list", v |-> items]
PyInt == [type |-> "int", v |-> <<>>]
\* the strings of a list of str
strs(items) == [i \in 1..Len(items) |-> items[i].v]

\* nltk.word_tokenize on words of letters and digits with spaces between
\* them: the words
_word_tokenize(sentence) == non_empty(split(sentence, " "))

\* the Punkt tokenizer on a text, not empty, with no punctuation: one
\* sentence
_sent_tokenize(text) == <<text>>

\* Tagger.tag_tokenized
tag_tokenized(self, sentence) == tag(self.taggers, self.tagger, sentence)

\* Tagger.tag_tokenized_sentences
tag_tokenized_sentences_reversed(self, sentences) ==
    [i \in 1..Len(sentences) |->
        tag_tokenized(self, sentences[Len(sentences) + 1 - i])]
tag_tokenized_sentences(self, sentences) ==
    [i \in 1..Len(sentences) |-> tag_tokenized(self, sentences[i])]

\* Tagger.tag_untokenized
tag_untokenized(self, sentence) ==
    tag(self.taggers, self.tagger, _word_tokenize(sentence))

\* Tagger.tag_untokenized_sentences
tag_untokenized_sentences(self, sentences) ==
    [i \in 1..Len(sentences) |-> tag_untokenized(self, sentences[i])]

\* Tagger.tag_untokenized_text
tag_untokenized_text(self, text) ==
    tag_untokenized_sentences(self, _sent_tokenize(text))

\* Tagger.tag: what is returned is a list of pairs (one tagged sentence)
\* or a list of tagged sentences
Tagger_tag(self, arg) ==
    IF arg.type = "str"
    THEN Ok([of |-> "sentences", v |-> tag_untokenized_text(self, arg.v)])
    ELSE IF arg.type = "list"
    THEN IF \A i \in 1..Len(arg.v) : arg.v[i].type = "str"
         THEN IF \A i \in 1..Len(arg.v) : Len(arg.v[i].v) = 1
              THEN Ok([of |-> "pairs",
                       v |-> tag_tokenized(self, strs(arg.v))])
              ELSE Ok([of |-> "sentences",
                       v |-> tag_untokenized_sentences(self, strs(arg.v))])
         ELSE IF \A i \in 1..Len(arg.v) : arg.v[i].type = "list"
         THEN Ok([of |-> "sentences",
                  v |-> tag_tokenized_sentences(self,
                            [i \in 1..Len(arg.v) |-> strs(arg.v[i].v)])])
         ELSE Raise("ValueError")
    ELSE Raise("ValueError")

\* util.flatten
flatten(nonflat) == concat(nonflat)

\* Tagger._prepare_test_set
_prepare_test_set(test) ==
    [x_feat |-> [s \in 1..Len(test) |->
                    [i \in 1..Len(test[s]) |-> test[s][i][1]]],
     y_true |-> [s \in 1..Len(test) |->
                    [i \in 1..Len(test[s]) |-> Some(test[s][i][2])]]]

\* numbers: a count (den = 1), a float of so many decimals (den a power of
\* ten), or nan
Count(c) == [nan |-> FALSE, num |-> c, den |-> 1]
NaN == [nan |-> TRUE, num |-> 0, den |-> 1]
RECURSIVE Pow10(_)
Pow10(d) == IF d = 0 THEN 1 ELSE 10 * Pow10(d - 1)

\* round(c / n, decimals) and np.around(c / n, decimals), n > 0: the
\* nearest multiple of 10^-decimals, the even one of two equally near
half_even(q, r, n) ==
    IF 2 * r < n THEN q
    ELSE IF 2 * r > n THEN q + 1
    ELSE IF q % 2 = 0 THEN q ELSE q + 1
truncated(c, n, decimals) ==
    [nan |-> FALSE, num |-> (c * Pow10(decimals)) \div n,
     den |-> Pow10(decimals)]
round(c, n, decimals) ==
    [nan |-> FALSE,
     num |-> half_even((c * Pow10(decimals)) \div n,
                       (c * Pow10(decimals)) % n, n),
     den |-> Pow10(decimals)]

\* the order of Python's str: by code point, a prefix before the longer
CodePoints == <<".", "0", "1", "2", "3", "4", "5", "6", "7", "8", "9">>
              \o Upper \o Lower
ord(c) == CHOOSE i \in 1..Len(CodePoints) : CodePoints[i] = c
RECURSIVE str_lt(_, _)
str_lt(a, b) ==
    IF b = <<>> THEN FALSE
    ELSE IF a = <<>> THEN TRUE
    ELSE IF Head(a) = Head(b) THEN str_lt(Tail(a), Tail(b))
    ELSE ord(Head(a)) < ord(Head(b))
sorted(S) ==
    [i \in 1..Cardinality(S) |->
        CHOOSE x \in S : Cardinality({y \in S : str_lt(y, x)}) = i - 1]

\* sklearn's check of two lists of labels: not two lists of str of one
\* length (mixed_error: what a list with None in it raises)
mixed(y) == \E i \in 1..Len(y) : y[i].none
check_targets(y_true, y_pred, mixed_error) ==
    IF Len(y_true) # Len(y_pred) THEN "ValueError"
    ELSE IF mixed(y_true) \/ mixed(y_pred) THEN mixed_error
    ELSE "none"

\* sklearn's unique_labels: the labels of the two lists, sorted
unique_labels(y_true, y_pred) ==
    sorted({y_true[i].v : i \in 1..Len(y_true)}
           \cup {y_pred[i].v : i \in 1..Len(y_pred)})

\* the number of positions with this gold label and this predicted one
count(y_true, y_pred, gold, pred) ==
    Cardinality({i \in 1..Len(y_true) :
                    y_true[i].v = gold /\ y_pred[i].v = pred})

\* the number of positions where the two lists agree
correct(y_true, y_pred) ==
    Cardinality({i \in 1..Len(y_true) : y_true[i] = y_pred[i]})

\* Tagger._accuracy: round(accuracy_score(y_true, y_pred, normalize),
\* decimals), the lists not empty
_accuracy_zipped(y_true, y_pred, normalize, decimals, mixed_error) ==
    LET zipped(n) ==
            IF mixed(y_true) \/ mixed(y_pred) THEN Raise(mixed_error)
            ELSE IF normalize
            THEN Ok(round(correct(SubSeq(y_true, 1, n), SubSeq(y_pred, 1, n)),
                          n, decimals))
            ELSE Ok(Count(correct(SubSeq(y_true, 1, n), SubSeq(y_pred, 1, n))))
    IN  zipped(IF Len(y_true) < Len(y_pred) THEN Len(y_true) ELSE Len(y_pred))
_accuracy_truncated(y_true, y_pred, normalize, decimals, mixed_error) ==
    IF check_targets(y_true, y_pred, mixed_error) # "none"
    THEN Raise(check_targets(y_true, y_pred, mixed_error))
    ELSE IF normalize
    THEN Ok(truncated(correct(y_true, y_pred), Len(y_true), decimals))
    ELSE Ok(Count(correct(y_true, y_pred)))
_accuracy(y_true, y_pred, normalize, decimals, mixed_error) ==
    IF check_targets(y_true, y_pred, mixed_error) # "none"
    THEN Raise(check_targets(y_true, y_pred, mixed_error))
    ELSE IF normalize
    THEN Ok(round(correct(y_true, y_pred), Len(y_true), decimals))
    ELSE Ok(Count(correct(y_true, y_pred)))

\* sklearn's confusion_matrix(y_true, y_pred): labels not given, the
\* matrix is on the sorted labels of the two lists
confusion_matrix(y_true, y_pred) ==
    LET counts(labels) ==
            [i \in 1..Len(labels) |->
                [j \in 1..Len(labels) |->
                    count(y_true, y_pred, labels[i], labels[j])]]
    IN  counts(unique_labels(y_true, y_pred))

\* the sum of a list of integers
RECURSIVE sum(_)
sum(row) == IF row = <<>> THEN 0 ELSE Head(row) + sum(Tail(row))

\* cm.astype('float') / cm.sum(axis=1)[:, np.newaxis], then np.around: a
\* row with no gold occurrence is 0/0, nan
normalized(cm, decimals) ==
    [i \in 1..Len(cm) |->
        [j \in 1..Len(cm) |->
            IF sum(cm[i]) = 0 THEN NaN
            ELSE round(cm[i][j], sum(cm[i]), decimals)]]

\* the matrix as it is when it is not normalized: counts
counted(cm) == [i \in 1..Len(cm) |-> [j \in 1..Len(cm) |-> Count(cm[i][j])]]

\* Tagger._confusion_matrix (plot left out): labels is a parameter that
\* the body does not read
_confusion_matrix(y_true, y_pred, normalize, labels, decimals, mixed_error) ==
    IF check_targets(y_true, y_pred, mixed_error) # "none"
    THEN Raise(check_targets(y_true, y_pred, mixed_error))
    ELSE IF normalize
    THEN Ok(normalized(confusion_matrix(y_true, y_pred), decimals))
    ELSE Ok(counted(confusion_matrix(y_true, y_pred)))

\* a ratio of two counts, 0.0 when it is a division by zero (sklearn warns)
Ratio(num, den) ==
    IF den = 0 THEN [nan |-> FALSE, num |-> 0, den |-> 1]
    ELSE [nan |-> FALSE, num |-> num, den |-> den]

\* Tagger._classification_report (output_dict=True): sklearn's
\* classification_report with target_names and no labels raises when there
\* are not as many names as labels in the lists; the i-th name goes to the
\* i-th sorted label, with the precision (hits / predicted), the recall
\* (hits / support), the f1-score (their harmonic mean) and the support of
\* that label
_classification_report(y_true, y_pred, target_names, mixed_error) ==
    LET row(name, hits, predicted, support) ==
            [name |-> name,
             precision |-> Ratio(hits, predicted),
             recall |-> Ratio(hits, support),
             f1_score |-> Ratio(2 * hits, predicted + support),
             support |-> support]
        rows(labels) ==
            IF Len(labels) # Len(target_names) THEN Raise("ValueError")
            ELSE Ok([i \in 1..Len(labels) |->
                       row(target_names[i],
                           count(y_true, y_pred, labels[i], labels[i]),
                           Cardinality({k \in 1..Len(y_pred) :
                                           y_pred[k].v = labels[i]}),
                           Cardinality({k \in 1..Len(y_true) :
                                           y_true[k].v = labels[i]}))])
    IN  IF check_targets(y_true, y_pred, mixed_error) # "none"
        THEN Raise(check_targets(y_true, y_pred, mixed_error))
        ELSE rows(unique_labels(y_true, y_pred))

\* util.UNIVERSAL_TAGSET, the list
target_names_default ==
    <<<<"V","E","R","B">>, <<"N","O","U","N">>, <<"P","R","O","N">>,
      <<"A","D","J">>, <<"A","D","V">>, <<"A","D","P">>,
      <<"C","O","N","J">>, <<"D","E","T">>, <<"N","U","M">>,
      <<"P","R","T">>, <<"X">>, <<".">>>>

\* Tagger.evaluate (plot=False): what was not asked for is returned as it
\* was given, False, and is not in `computed`
evaluate(self, test, args, mixed_error) ==
    LET results(y_true, y_pred, target_names) ==
            LET returned(accuracy, conf_matrix, report) ==
                    IF accuracy.err # "none" THEN Raise(accuracy.err)
                    ELSE IF conf_matrix.err # "none"
                    THEN Raise(conf_matrix.err)
                    ELSE IF report.err # "none" THEN Raise(report.err)
                    ELSE Ok([accuracy |-> accuracy.val,
                             conf_matrix |-> conf_matrix.val,
                             report |-> report.val,
                             computed |->
                                 {k \in {"accuracy", "conf_matrix", "report"} :
                                     args[k]}])
            IN  returned(
                    IF args.accuracy
                    THEN _accuracy(y_true, y_pred, args.normalize,
                                   args.decimals, mixed_error)
                    ELSE Ok(Count(0)),
                    IF args.conf_matrix
                    THEN _confusion_matrix(y_true, y_pred, args.normalize,
                                           target_names, args.decimals,
                                           mixed_error)
                    ELSE Ok(<<>>),
                    IF args.report
                    THEN _classification_report(y_true, y_pred, target_names,
                                                mixed_error)
                    ELSE Ok(<<>>))
        predicted(tagged) ==
            [s \in 1..Len(tagged) |->
                [i \in 1..Len(tagged[s]) |-> tagged[s][i][2]]]
    IN  results(flatten(_prepare_test_set(test).y_true),
                flatten(predicted(tag_tokenized_sentences(
                            self, _prepare_test_set(test).x_feat))),
                IF args.target_names.none THEN target_names_default
                ELSE args.target_names.v)

(***************************************************************************)
(* The tagger built, asked to tag and evaluated: the arguments of the      *)
(* constructor and of one call are chosen at the start; the static methods *)
(* are called on the class, no tagger built.                               *)
(***************************************************************************)
MaxBatch == 2
MaxTags == 4

\* sequences with a Default and without one, trained on the two sentences
FacadeSequences ==
    {Some(<<<<"U","n","i","g","r","a","m">>, <<"D","e","f","a","u","l","t">>>>),
     Some(<<<<"B","i","g","r","a","m">>>>),
     Some(<<<<"D","e","f","a","u","l","t">>>>)}
FacadeTrain ==
    Some(<< << <<<<"o">>, <<"D","E","T">>>>, <<<<"c","a","s","a","s">>, <<"N","O","U","N">>>> >>,
            << <<<<"o">>, <<"P","R","O","N">>>>, <<<<"c","a","s","a","s">>, <<"V","E","R","B">>>> >> >>)

\* lists of MaxBatch tokenized sentences at most, of no word, one, two
\* and three
BatchSentences ==
    {<<>>, <<<<"o">>>>, <<<<"c","a","s","a","l">>, <<"o">>>>,
     <<<<"4","2">>, <<"o">>, <<"c","a","s","a","s">>>>}
Batches == UNION {[1..n -> BatchSentences] : n \in 0..MaxBatch}

\* what Tagger.tag is given: a text or a value that is not a str or a
\* list; a tokenized sentence or a list of sentences not tokenized; a list
\* of tokenized sentences; a list of a str and a list
TagValues == {PyStr(<<"o"," ","c","a","s","a","l">>), PyInt}
TagStrLists ==
    {PyList(<<PyStr(<<"o"," ","c","a","s","a","l">>), PyStr(<<"o">>)>>)}
    \cup {PyList([i \in 1..Len(sentence) |-> PyStr(sentence[i])]) :
             sentence \in Sentences}
TagListLists ==
    {PyList([s \in 1..Len(sentences) |->
                PyList([i \in 1..Len(sentences[s]) |->
                           PyStr(sentences[s][i])])]) :
        sentences \in Batches}
TagMixedLists == {PyList(<<PyStr(<<"o">>), PyList(<<PyStr(<<"o">>)>>)>>)}

\* test sets: one tagged sentence at least, of the three
GoldSentences ==
    {<< <<<<"o">>, <<"D","E","T">>>>, <<<<"c","a","s","a","l">>, <<"N","O","U","N">>>> >>,
     << <<<<"o">>, <<"P","R","O","N">>>> >>,
     << <<<<"c","a","s","a","l">>, <<"V","E","R","B">>>>, <<<<"o">>, <<"D","E","T">>>> >>}
Tests == UNION {[1..n -> GoldSentences] : n \in 1..MaxBatch}

\* the keyword arguments of evaluate
EvaluateArgs ==
    {[accuracy |-> asked, conf_matrix |-> asked, report |-> report,
      normalize |-> normalize, target_names |-> target_names,
      decimals |-> decimals] :
        asked \in BOOLEAN, report \in BOOLEAN, normalize \in BOOLEAN,
        target_names \in {None, Some(<<<<"D","E","T">>, <<"N","O","U","N">>>>)},
        decimals \in {0, 2}}

\* two lists of labels for _accuracy and _confusion_matrix: of one length,
\* MaxTags at most, on two labels; and of one length with a third label
\* predicted only, of two lengths, with None in the second
MetricLabels == {Some(<<"N","O","U","N">>), Some(<<"V","E","R","B">>)}
LabelLists ==
    UNION {[y_true : [1..n -> MetricLabels], y_pred : [1..n -> MetricLabels]] :
              n \in 1..MaxTags}
    \cup {[y_true |-> <<Some(<<"N","O","U","N">>), Some(<<"V","E","R","B">>)>>,
           y_pred |-> <<Some(<<"A","D","J">>), Some(<<"V","E","R","B">>)>>],
          [y_true |-> <<Some(<<"N","O","U","N">>), Some(<<"V","E","R","B">>)>>,
           y_pred |-> <<Some(<<"N","O","U","N">>)>>],
          [y_true |-> <<Some(<<"N","O","U","N">>), Some(<<"V","E","R","B">>)>>,
           y_pred |-> <<Some(<<"N","O","U","N">>), None>>]}
AccuracyArgs ==
    {[y_true |-> y.y_true, y_pred |-> y.y_pred, normalize |-> normalize,
      decimals |-> decimals] :
        y \in LabelLists, normalize \in BOOLEAN, decimals \in {0, 2}}
ConfusionMatrixArgs ==
    {[y_true |-> y.y_true, y_pred |-> y.y_pred, normalize |-> normalize,
      decimals |-> 2, labels |-> labels] :
        y \in LabelLists, normalize \in BOOLEAN,
        labels \in {target_names_default,
                    <<<<"N","O","U","N">>, <<"V","E","R","B">>>>}}
\* the lists of labels and the names for _classification_report: the two
\* labels in their sorted order and not, the universal tagset; one more
\* pair of lists has the twelve tags, '.' taken for a VERB
TwelveTags ==
    [y_true |-> [i \in 1..Len(target_names_default) |->
                    Some(target_names_default[i])],
     y_pred |-> [i \in 1..Len(target_names_default) |->
                    IF target_names_default[i] = <<".">>
                    THEN Some(<<"V","E","R","B">>)
                    ELSE Some(target_names_default[i])]]
ReportArgs ==
    {[y_true |-> y.y_true, y_pred |-> y.y_pred,
      target_names |-> target_names] :
        y \in LabelLists \cup {TwelveTags},
        target_names \in {<<<<"N","O","U","N">>, <<"V","E","R","B">>>>,
                          <<<<"V","E","R","B">>, <<"N","O","U","N">>>>,
                          target_names_default}}
MixedErrors == {"TypeError", "ValueError"}

FacadeInput(sequence, call) ==
    [for |-> "SequenceBackoffTagger", sequence |-> sequence,
     reverse |-> TRUE, train |-> FacadeTrain, default_tag |-> None,
     ngram_size |-> NoInt, regexps |-> None, affix_length |-> NoInt,
     min_stem_length |-> NoInt, call |-> call]

FacadeInit ==
    /\ raw = [c \in Classes |-> RawCorpora(c)[1]]
    /\ files = [f \in FileIds |-> Absent]
    /\ obj = NoObject
    /\ iters = <<>>
    /\ held = Unset
    /\ runs = <<>>
    /\ ret = Call("none", <<>>, Ok(<<>>))
    /\ tagger = NoTagger
    /\ \/ \E sequence \in FacadeSequences :
             \/ \E arg \in TagValues :
                   input = FacadeInput(sequence, [op |-> "tag", arg |-> arg])
             \/ \E arg \in TagStrLists :
                   input = FacadeInput(sequence, [op |-> "tag", arg |-> arg])
             \/ \E arg \in TagListLists :
                   input = FacadeInput(sequence, [op |-> "tag", arg |-> arg])
             \/ \E arg \in TagMixedLists :
                   input = FacadeInput(sequence, [op |-> "tag", arg |-> arg])
             \/ \E sentences \in Batches :
                   input = FacadeInput(sequence,
                               [op |-> "tag_tokenized_sentences",
                                arg |-> sentences])
             \/ \E test \in Tests, args \in EvaluateArgs :
                   input = FacadeInput(sequence,
                               [op |-> "evaluate",
                                arg |-> [test |-> test, args |-> args]])
       \/ \E arg \in AccuracyArgs :
             input = [for |-> "Tagger",
                      call |-> [op |-> "_accuracy", arg |-> arg]]
       \/ \E arg \in ConfusionMatrixArgs :
             input = [for |-> "Tagger",
                      call |-> [op |-> "_confusion_matrix", arg |-> arg]]
       \/ \E arg \in ReportArgs :
             input = [for |-> "Tagger",
                      call |-> [op |-> "_classification_report", arg |-> arg]]

\* tagger.tag(arg)
CallTag ==
    /\ tagger.built
    /\ input.call.op = "tag"
    /\ ret' = Call("tag", input.call.arg, Tagger_tag(tagger, input.call.arg))
    /\ UNCHANGED <<raw, files, obj, iters, held, runs, input, tagger>>

\* tagger.tag_tokenized_sentences(sentences)
CallTagTokenizedSentences ==
    /\ tagger.built
    /\ input.call.op = "tag_tokenized_sentences"
    /\ ret' = Call("tag_tokenized_sentences", input.call.arg,
                   Ok(tag_tokenized_sentences(tagger, input.call.arg)))
    /\ UNCHANGED <<raw, files, obj, iters, held, runs, input, tagger>>

\* tagger.evaluate(test, accuracy=..., conf_matrix=..., report=...,
\* normalize=..., target_names=..., decimals=...)
CallEvaluate ==
    /\ tagger.built
    /\ input.call.op = "evaluate"
    /\ \E mixed_error \in MixedErrors :
          ret' = Call("evaluate", input.call.arg,
                      evaluate(tagger, input.call.arg.test,
                               input.call.arg.args, mixed_error))
    /\ UNCHANGED <<raw, files, obj, iters, held, runs, input, tagger>>

\* Tagger._accuracy(y_true, y_pred, normalize, decimals)
CallAccuracy ==
    /\ input.call.op = "_accuracy"
    /\ \E mixed_error \in MixedErrors :
          ret' = Call("_accuracy", input.call.arg,
                      _accuracy(input.call.arg.y_true, input.call.arg.y_pred,
                                input.call.arg.normalize,
                                input.call.arg.decimals, mixed_error))
    /\ UNCHANGED <<raw, files, obj, iters, held, runs, input, tagger>>

\* Tagger._confusion_matrix(y_true, y_pred, normalize, labels=labels,
\* decimals=decimals)
CallConfusionMatrix ==
    /\ input.call.op = "_confusion_matrix"
    /\ \E mixed_error \in MixedErrors :
          ret' = Call("_confusion_matrix", input.call.arg,
                      _confusion_matrix(input.call.arg.y_true,
                                        input.call.arg.y_pred,
                                        input.call.arg.normalize,
                                        input.call.arg.labels,
                                        input.call.arg.decimals, mixed_error))
    /\ UNCHANGED <<raw, files, obj, iters, held, runs, input, tagger>>

\* Tagger._classification_report(y_true, y_pred, target_names, True)
CallClassificationReport ==
    /\ input.call.op = "_classification_report"
    /\ \E mixed_error \in MixedErrors :
          ret' = Call("_classification_report", input.call.arg,
                      _classification_report(input.call.arg.y_true,
                                             input.call.arg.y_pred,
                                             input.call.arg.target_names,
                                             mixed_error))
    /\ UNCHANGED <<raw, files, obj, iters, held, runs, input, tagger>>

FacadeNext ==
    \/ NewSequenceBackoffTagger
    \/ CallTag
    \/ CallTagTokenizedSentences
    \/ CallEvaluate
    \/ CallAccuracy
    \/ CallConfusionMatrix
    \/ CallClassificationReport
SpecFacade == FacadeInit /\ [][FacadeNext]_vars

(***************************************************************************)
(* Persistence: Tagger.save and Tagger.load (tagger.py), and save and load *)
(* of the earlier SequenceBackoffTagger (taggers.py), on the files of the  *)
(* working directory.  A pickle holds the class of an object and what can  *)
(* be reached from it.                                                     *)
(***************************************************************************)
\* a Python object: its class and, of a tagger, the taggers it holds and
\* the place of the first among them
PyObject(cls, taggers, head) == [cls |-> cls, taggers |-> taggers, tagger |-> head]
PyNone == PyObject("NoneType", <<>>, 0)

\* the chain of an nltk tagger, the one at k: the tagger and what its
\* backoff links reach, the last one first
RECURSIVE chain_of(_, _)
chain_of(taggers, k) ==
    LET append(rest) == Append(rest, [taggers[k] EXCEPT !.backoff = Len(rest)])
    IN  IF k = 0 THEN <<>> ELSE append(chain_of(taggers, taggers[k].backoff))

\* the content of a file: nothing that pickle reads, or a pickle
Garbage == [format |-> "garbage", cls |-> "", taggers |-> <<>>, tagger |-> 0]
\* pickle.dump and pickle.load
pickle_dump_head(o) ==
    [format |-> "pickle", cls |-> o.cls,
     taggers |-> chain_of(o.taggers, o.tagger),
     tagger |-> Len(chain_of(o.taggers, o.tagger))]
pickle_dump(o) ==
    [format |-> "pickle", cls |-> o.cls, taggers |-> o.taggers,
     tagger |-> o.tagger]
pickle_load(blob) ==
    IF blob.format = "pickle"
    THEN Ok(PyObject(blob.cls, blob.taggers, blob.tagger))
    ELSE Raise("UnpicklingError")

\* str.endswith
endswith(s, suffix) ==
    /\ Len(s) >= Len(suffix)
    /\ SubSeq(s, Len(s) - Len(suffix) + 1, Len(s)) = suffix

\* open(filepath, 'wb') and open(filepath, 'rb'): the working directory has
\* no directory in it, and a file is read when it is there
can_write(filepath) == filepath # <<>> /\ \A i \in 1..Len(filepath) : filepath[i] # "/"
can_read(disk, filepath) ==
    Str(filepath) \in DOMAIN disk /\ disk[Str(filepath)].exists

\* Tagger.save: what is raised or returned, and the files after it
Tagger_save(self, disk, filepath) ==
    IF can_write(filepath)
    THEN [out |-> Ok(PyNone),
          files |-> [disk EXCEPT ![Str(filepath)] =
                        [exists |-> TRUE, content |-> pickle_dump(self)]]]
    ELSE [out |-> Raise("Exception"), files |-> disk]

\* Tagger.load: OSError is caught and an Exception raised; what pickle.load
\* raises goes to the caller; what it returns is returned
Tagger_load(disk, filepath) ==
    IF ~can_read(disk, filepath) THEN Raise("Exception")
    ELSE pickle_load(disk[Str(filepath)].content)

\* taggers.SequenceBackoffTagger.save: '.pkl' is added to a path without
\* it, and self.tagger is what is saved
pkl == <<".","p","k","l">>
SequenceBackoffTagger_save(self, disk, filepath) ==
    LET dump(path) ==
            IF can_write(path)
            THEN [out |-> Ok(PyNone),
                  files |-> [disk EXCEPT ![Str(path)] =
                                [exists |-> TRUE,
                                 content |-> pickle_dump_head(
                                     PyObject("nltk tagger", self.taggers,
                                              self.tagger))]]]
            ELSE [out |-> Raise("FileNotFoundError"), files |-> disk]
    IN  dump(IF endswith(filepath, pkl) THEN filepath ELSE filepath \o pkl)

\* taggers.SequenceBackoffTagger.load, a classmethod: the tagger loaded is
\* the attribute tagger of the class, nothing is returned; a path without
\* '.pkl' is printed as an error
SequenceBackoffTagger_load(disk, filepath) ==
    LET set(loaded) ==
            IF loaded.err # "none" THEN Raise(loaded.err)
            ELSE Ok([returned |-> PyNone, cls_tagger |-> loaded.val])
    IN  IF endswith(filepath, pkl)
        THEN IF ~can_read(disk, filepath) THEN Raise("FileNotFoundError")
             ELSE set(pickle_load(disk[Str(filepath)].content))
        ELSE Ok([returned |-> PyNone, cls_tagger |-> PyNone])

\* the paths, one of them in a directory that is not there; what a file
\* holds at the start: nothing (no file), no pickle, the pickle of a list
Paths ==
    {<<"m">>, <<"m",".","p","k","l">>, <<"x","/","m",".","p","k","l">>}
FileNames == {"m", "m.pkl"}
FilesAtStart ==
    {Absent, [exists |-> TRUE, content |-> Garbage],
     [exists |-> TRUE, content |-> pickle_dump(PyObject("list", <<>>, 0))]}

\* sequences whose first tagger reaches every tagger, and does not
PersistSequences ==
    {Some(<<<<"U","n","i","g","r","a","m">>, <<"D","e","f","a","u","l","t">>>>),
     Some(<<<<"D","e","f","a","u","l","t">>, <<"U","n","i","g","r","a","m">>>>),
     Some(<<<<"B","i","g","r","a","m">>>>)}

\* the call on the tagger, among those to save and to load: one that
\* returns and one that raises, of tag and of evaluate, and one of
\* tag_tokenized_sentences
PersistInit ==
    /\ raw = [c \in Classes |-> RawCorpora(c)[1]]
    /\ obj = NoObject
    /\ iters = <<>>
    /\ held = Unset
    /\ runs = <<>>
    /\ ret = Call("none", <<>>, Ok(<<>>))
    /\ tagger = NoTagger
    /\ \E file \in FilesAtStart : files = [f \in FileNames |-> file]
    /\ \E sequence \in PersistSequences :
          \/ \E arg \in TagValues :
                input = FacadeInput(sequence, [op |-> "tag", arg |-> arg])
          \/ input = FacadeInput(sequence,
                         [op |-> "tag_tokenized_sentences",
                          arg |-> <<<<<<"o">>, <<"c","a","s","a","l">>>>>>])
          \/ \E test \in Tests, report \in BOOLEAN :
                /\ Len(test) = 1
                /\ input = FacadeInput(sequence,
                               [op |-> "evaluate",
                                arg |-> [test |-> test,
                                         args |-> [accuracy |-> TRUE,
                                                   conf_matrix |-> TRUE,
                                                   report |-> report,
                                                   normalize |-> TRUE,
                                                   target_names |-> None,
                                                   decimals |-> 2]]])

\* tagger.save(filepath)
CallSave(filepath) ==
    /\ tagger.built
    /\ \E saved \in {Tagger_save(PyObject("SequenceBackoffTagger",
                                          tagger.taggers, tagger.tagger),
                                 files, filepath)} :
          /\ files' = saved.files
          /\ ret' = Call("save", filepath, saved.out)
    /\ UNCHANGED <<raw, obj, iters, held, runs, input, tagger>>

\* Tagger.load(filepath)
CallLoad_replacing(filepath) ==
    /\ tagger.built
    /\ ret' = Call("load", filepath, Tagger_load(files, filepath))
    /\ tagger' = IF Tagger_load(files, filepath).err = "none"
                 THEN [tagger EXCEPT
                          !.taggers = Tagger_load(files, filepath).val.taggers,
                          !.tagger = Tagger_load(files, filepath).val.tagger]
                 ELSE tagger
    /\ UNCHANGED <<raw, files, obj, iters, held, runs, input>>
CallLoad(filepath) ==
    /\ tagger.built
    /\ ret' = Call("load", filepath, Tagger_load(files, filepath))
    /\ UNCHANGED <<raw, files, obj, iters, held, runs, input, tagger>>

\* the earlier class, holding the same chain: save(filepath)
CallTaggersSave(filepath) ==
    /\ tagger.built
    /\ \E saved \in {SequenceBackoffTagger_save(tagger, files, filepath)} :
          /\ files' = saved.files
          /\ ret' = Call("taggers.save", filepath, saved.out)
    /\ UNCHANGED <<raw, obj, iters, held, runs, input, tagger>>

\* the earlier class: SequenceBackoffTagger.load(filepath)
CallTaggersLoad(filepath) ==
    /\ tagger.built
    /\ ret' = Call("taggers.load", filepath,
                   SequenceBackoffTagger_load(files, filepath))
    /\ UNCHANGED <<raw, files, obj, iters, held, runs, input, tagger>>

PersistNext ==
    \/ NewSequenceBackoffTagger
    \/ CallTag
    \/ CallTagTokenizedSentences
    \/ CallEvaluate
    \/ \E filepath \in Paths : CallSave(filepath)
    \/ \E filepath \in Paths : CallLoad(filepath)
    \/ \E filepath \in Paths : CallTaggersSave(filepath)
    \/ \E filepath \in Paths : CallTaggersLoad(filepath)
SpecPersist == PersistInit /\ [][PersistNext]_vars

(***************************************************************************)
(* Properties.                                                             *)
(***************************************************************************)
Mapped(c) == ~obj.mapping.none /\ obj.cls = c

\* C1: Corpus.map_word_tag((w, t)) on an object that has a mapping table
\* returns (w, mapping[t]) when t is a key of the table and (w, default_tag)
\* when it is not, and raises nothing; default_tag is 'X' when the setter
\* was given nothing (None).
C1_MapWordTag ==
    /\ (ret.op = "Corpus.map_word_tag" /\ ~obj.mapping.none) =>
          LET w == ret.arg[1]
              t == Str(ret.arg[2])
              table == _universal_mapping(obj.cls)
          IN  /\ ret.out.err = "none"
              /\ ret.out.val[1] = w
              /\ t \in DOMAIN table => Str(ret.out.val[2]) = table[t]
              /\ t \notin DOMAIN table => ret.out.val[2] = obj.default_tag
    /\ (ret.op = "__init__" \/ (ret.op = "default_tag" /\ ret.arg.none)) =>
          obj.default_tag = <<"X">>

C1_Witness ==
    /\ ret.op = "Corpus.map_word_tag"
    /\ ~obj.mapping.none
    /\ Str(ret.arg[2]) \notin DOMAIN _universal_mapping(obj.cls)
    /\ ret.out = Ok(<<ret.arg[1], <<"X">> >>)

\* C2: whatever the source tag, the tag a shipped table produces is one of
\* the 12 tags of the universal tagset.
C2_UniversalRange ==
    (ret.op \in {"map_word_tag", "Corpus.map_word_tag"} /\ ret.out.err = "none"
        /\ ~obj.mapping.none
       => Str(ret.out.val[2]) \in UNIVERSAL_TAGSET)
    /\ (ret.op = "to_universal" => Str(ret.out.val) \in UNIVERSAL_TAGSET)

\* C4: Floresta maps a token by the last '+'-separated component of its
\* tag (the whole tag when it has no '+'): 'H+prp-' gives ADP, 'P+vp' gives
\* VERB; map_sentence_tags and the map object of map_corpus_tags map every
\* token the same way.
LastComponent(t, p) ==
    /\ \A i \in 1..Len(p) : p[i] # "+"
    /\ Len(p) <= Len(t)
    /\ SubSeq(t, Len(t) - Len(p) + 1, Len(t)) = p
    /\ Len(p) < Len(t) => t[Len(t) - Len(p)] = "+"

FlorestaTag(t) ==
    LET p == CHOOSE q \in {SubSeq(t, i, Len(t)) : i \in 1..(Len(t) + 1)} :
                 LastComponent(t, q)
    IN  IF Str(p) \in DOMAIN Floresta_universal_mapping
        THEN Chars(Floresta_universal_mapping[Str(p)])
        ELSE obj.default_tag

C4_FlorestaLastComponent ==
    Mapped("Floresta") =>
      /\ ret.op = "map_word_tag" =>
            /\ ret.out = Ok(<<ret.arg[1], FlorestaTag(ret.arg[2])>>)
            /\ Str(ret.arg[2]) = "H+prp-" => Str(ret.out.val[2]) = "ADP"
            /\ Str(ret.arg[2]) = "P+vp" => Str(ret.out.val[2]) = "VERB"
      /\ ret.op = "map_sentence_tags" =>
            ret.out = Ok([i \in 1..Len(ret.arg) |->
                            <<ret.arg[i][1], FlorestaTag(ret.arg[i][2])>>])

C4_Witness ==
    /\ Mapped("Floresta")
    /\ ret.op = "map_sentence_tags"
    /\ Len(ret.arg) = 2
    /\ Str(ret.arg[1][2]) = "H+prp-"
    /\ Str(ret.out.val[1][2]) = "ADP"

\* C5: map_sentence_tags returns a sentence as long as its argument, whose
\* i-th token is the i-th word of the argument, unchanged, with the mapping
\* of the i-th tag.
C5_MapSentence ==
    (ret.op = "map_sentence_tags" /\ ~obj.mapping.none) =>
        /\ ret.out.err = "none"
        /\ Len(ret.out.val) = Len(ret.arg)
        /\ \A i \in 1..Len(ret.arg) :
              /\ ret.out.val[i][1] = ret.arg[i][1]
              /\ ret.out.val[i] = map_word_tag(obj, ret.arg[i]).val

C5_Witness ==
    /\ ret.op = "map_sentence_tags"
    /\ ~obj.mapping.none
    /\ Len(ret.arg) = 2
    /\ ret.out.val[1][1] # ret.out.val[2][1]
    /\ ret.out.val[1][2] # ret.out.val[2][2]


\* C3: after Corpora has constructed its corpus classes with
\* universal=True, the sentences it exposes carry only universal tags,
\* whether the mapped file was in the folder or not.
C3_CorporaUniversal ==
    (ret.op = "Corpora" /\ ret.arg[2] /\ ret.out.err = "none") =>
        \A i \in 1..Len(ret.out.val.sentences) :
            \A j \in 1..Len(ret.out.val.sentences[i]) :
                Str(ret.out.val.sentences[i][j][2]) \in UNIVERSAL_TAGSET

\* every sentence of a sequence, mapped by obj
AllMapped(sents) == drain(obj, NewIter(sents))

\* C6: what map_corpus_tags returns can be traversed again: every
\* traversal of it, and of obj.mapped_tagged_sents / obj.tagged_sents after
\* a construction that wrote the mapped file, yields all mapped sentences.
C6_Restartable ==
    (ret.op = "list" /\ Target(ret.arg).kind = "iter" /\ ~obj.mapping.none) =>
        ret.out = AllMapped(iters[Target(ret.arg).id].src)

Unrecognized(name) ==
    Str(_clean(name)) \notin {"MACMORPHO", "FLORESTA", "LACIOWEB"}

C8_InvalidNameFailsFirst ==
    (ret.op = "Corpora" /\ \E i \in 1..Len(ret.arg[1]) : Unrecognized(ret.arg[1][i])) =>
        /\ ret.out.err = "Exception"
        /\ ret.out.val.constructed = <<>>
        /\ ret.out.val.sentences = <<>>

C8_Witness ==
    /\ ret.op = "Corpora"
    /\ Len(ret.arg[1]) = 2
    /\ ~Unrecognized(ret.arg[1][1])
    /\ Unrecognized(ret.arg[1][2])
    /\ ret.out.err = "Exception"
    /\ ret.out.val.constructed = <<>>

\* the class a valid name stands for, and the declared sequence
ClassOf(name) == mapping[Str(_tagger_names_clean(name))]
Declared == sequence_setter(input.sequence)
BuiltReversed ==
    input.for = "SequenceBackoffTagger" /\ input.reverse /\ tagger.built

\* the classes met from tagger k on, following the backoff links
RECURSIVE ChainFrom(_)
ChainFrom(k) ==
    IF k = 0 THEN <<>>
    ELSE <<tagger.taggers[k].cls>> \o ChainFrom(tagger.taggers[k].backoff)

\* the taggers are built from sk to s1 and the head is the one of s1
BuiltLastToFirst ==
    /\ Len(tagger.taggers) = Len(Declared)
    /\ \A j \in 1..Len(Declared) :
          tagger.taggers[j].cls = ClassOf(Declared[Len(Declared) + 1 - j])
    /\ tagger.tagger = Len(Declared)

\* C9 (as stated): in a chain built with reverse=True from s1..sk, every
\* tagger but the first built has the previously built one as backoff, and
\* the backoff links from the head visit the taggers of s1, s2, ..., sk.
C9_ChainVisitsAll ==
    BuiltReversed =>
        /\ BuiltLastToFirst
        /\ \A j \in 1..Len(Declared) : tagger.taggers[j].backoff = j - 1
        /\ ChainFrom(tagger.tagger) =
              [i \in 1..Len(Declared) |-> ClassOf(Declared[i])]

\* C9 (amended): in a chain built with reverse=True from s1..sk, the
\* taggers are built from sk to s1 and the head is the one of s1; every
\* tagger but the first built and but a Default tagger has the previously
\* built one as backoff, and a Default tagger has none; the backoff links
\* from the head visit the taggers of s1, s2, ... up to the first Default
\* tagger of the sequence, or up to sk when it has none.
FirstDefault ==
    LET at == {i \in 1..Len(Declared) : ClassOf(Declared[i]) = "DefaultTagger"}
    IN  IF at = {} THEN Len(Declared)
        ELSE CHOOSE i \in at : \A j \in at : i <= j

C9_ChainStopsAtDefault ==
    BuiltReversed =>
        /\ BuiltLastToFirst
        /\ \A j \in 1..Len(Declared) :
              tagger.taggers[j].backoff =
                  IF tagger.taggers[j].cls = "DefaultTagger" THEN 0 ELSE j - 1
        /\ ChainFrom(tagger.tagger) =
              [i \in 1..FirstDefault |-> ClassOf(Declared[i])]

C9_Witness ==
    /\ BuiltReversed
    /\ ChainFrom(tagger.tagger) =
          <<"TrigramTagger", "BigramTagger", "UnigramTagger", "DefaultTagger">>
    /\ tagger.taggers[1].cls = "DefaultTagger"
    /\ tagger.taggers[4].backoff = 3

\* C10: a chain built from [Trigram, Bigram, Unigram, Default] and a
\* training corpus that is not empty gives, for a sentence of words that
\* are not in the training corpus, one (word, tag) per token, in order, and
\* the tag is the default tag given, 'NOUN' when none is given (None, or
\* the empty string, which the setter takes for none).
FourOfTheDocumentation ==
    /\ ~input.sequence.none
    /\ \A i \in 1..Len(Declared) :
          Str(_tagger_names_clean(Declared[i])) \in DOMAIN mapping
    /\ [i \in 1..Len(Declared) |-> ClassOf(Declared[i])] =
          <<"TrigramTagger", "BigramTagger", "UnigramTagger", "DefaultTagger">>

UnseenOnly(sentence) ==
    \A i \in 1..Len(sentence) : sentence[i] \notin TrainWords(input.train.v)

RECURSIVE LinksFrom(_)
LinksFrom(k) ==
    IF k = 0 THEN {} ELSE {k} \cup LinksFrom(tagger.taggers[k].backoff)

ConfiguredDefault ==
    IF truthy(input.default_tag) THEN input.default_tag.v
    ELSE <<"N","O","U","N">>

\* no tagger of the chain has a tag for token i of the sentence tagged,
\* given the tags returned for the tokens before it
NoTaggerMatches(i) ==
    \A k \in LinksFrom(tagger.tagger) :
        choose_tag(tagger.taggers[k], ret.arg, i,
                   [j \in 1..(i - 1) |-> ret.out.val[j][2]]).none

\* C11: tag_tokenized never returns an absent (None) tag: a token that no
\* tagger of the chain matches, as in a chain without a Default tagger
\* such as [Bigram, Unigram], gets the configured default tag.
C11_NeverAbsent ==
    (ret.op = "tag_tokenized" /\ tagger.built) =>
        \A i \in 1..Len(ret.arg) :
            /\ ~ret.out.val[i][2].none
            /\ NoTaggerMatches(i) =>
                  ret.out.val[i][2] = Some(ConfiguredDefault)

\* C12: a sequence with a name of no class, at any position, makes the
\* construction fail, and no constructor of a tagger has been called.
UnknownName(name) == Str(_tagger_names_clean(name)) \notin DOMAIN mapping

C12_UnknownNameFailsFirst ==
    (/\ ret.op = "SequenceBackoffTagger"
     /\ \E i \in 1..Len(Declared) : UnknownName(Declared[i])) =>
        /\ ret.out.err = "Exception"
        /\ ~tagger.built
        /\ tagger.calls = <<>>
        /\ tagger.taggers = <<>>

C12_Witness ==
    /\ ret.op = "SequenceBackoffTagger"
    /\ truthy(input.train)
    /\ Len(Declared) = 2
    /\ ~UnknownName(Declared[1])
    /\ UnknownName(Declared[2])
    /\ ret.out.err = "Exception"
    /\ tagger.calls = <<>>

\* C13: with a sequence of valid names, one of them a tagger that needs
\* training data (Unigram, Bigram, Trigram, NGram, Affix), the
\* construction fails when train is None (Exception 'missing training
\* data') or an empty list (ValueError 'Must specify either training data
\* or trained model'), and the object holds no chain.
NeedsTraining(name) ==
    ~UnknownName(name)
    /\ ClassOf(name) \in {"UnigramTagger", "BigramTagger", "TrigramTagger",
                          "NgramTagger", "AffixTagger"}

C13_NoTrainingDataFails ==
    (/\ ret.op = "SequenceBackoffTagger"
     /\ \A i \in 1..Len(Declared) : ~UnknownName(Declared[i])
     /\ \E i \in 1..Len(Declared) : NeedsTraining(Declared[i])
     /\ ~truthy(input.train)) =>
        /\ ret.out.err = IF input.train.none THEN "Exception" ELSE "ValueError"
        /\ ~tagger.built
        /\ tagger.tagger = 0

C13_Witness ==
    /\ ret.op = "SequenceBackoffTagger"
    /\ input.train = Some(<<>>)
    /\ ~input.reverse
    /\ Len(Declared) = 2
    /\ ~UnknownName(Declared[1]) /\ ClassOf(Declared[1]) = "DefaultTagger"
    /\ NeedsTraining(Declared[2])
    /\ ret.out.err = "ValueError"
    /\ Len(tagger.taggers) = 1

\* C14: when no hyperparameter is given, the constructors are called with
\* the documented defaults: n=4 for NGram, affix length 3 and minimum stem
\* length 2 for Affix, tag 'NOUN' for Default, and the one pattern of
\* numbers, tagged NUM, for Regex.
NothingGiven ==
    /\ input.for = "SequenceBackoffTagger"
    /\ input.default_tag.none /\ input.ngram_size.none
    /\ input.affix_length.none /\ input.min_stem_length.none
    /\ input.regexps.none

C14_DocumentedDefaults ==
    (ret.op = "SequenceBackoffTagger" /\ NothingGiven) =>
        \A j \in 1..Len(tagger.calls) :
            LET cls == tagger.calls[j].cls
                cls_args == tagger.calls[j].cls_args
            IN  /\ cls = "NgramTagger" => ~cls_args.n.none /\ cls_args.n.v = 4
                /\ cls = "AffixTagger" =>
                      cls_args.affix_length = 3 /\ cls_args.min_stem_length = 2
                /\ cls = "DefaultTagger" => cls_args.tag = <<"N","O","U","N">>
                /\ cls = "RegexpTagger" =>
                      /\ Len(cls_args.regexps) = 1
                      /\ cls_args.regexps[1][2] = <<"N","U","M">>
                      /\ \A token \in Tokens :
                            re_match(cls_args.regexps[1][1], token)
                                <=> all_digits(token)

\* C15: the keyword arguments of each constructor call are the
\* hyperparameters of the class and nothing else: tag for Default; train
\* for Unigram, Bigram and Trigram; n and train for NGram; train,
\* affix_length and min_stem_length for Affix; regexps for Regex; and
\* backoff too, for every class but Default, in every call but the first.
Hyperparameters(cls) ==
    CASE cls = "DefaultTagger" -> {"tag"}
      [] cls \in {"UnigramTagger", "BigramTagger", "TrigramTagger"} -> {"train"}
      [] cls = "NgramTagger" -> {"n", "train"}
      [] cls = "AffixTagger" -> {"train", "affix_length", "min_stem_length"}
      [] cls = "RegexpTagger" -> {"regexps"}

C15_ExactArguments ==
    ret.op = "SequenceBackoffTagger" =>
        \A j \in 1..Len(tagger.calls) :
            DOMAIN tagger.calls[j].cls_args =
                Hyperparameters(tagger.calls[j].cls)
                \cup (IF j > 1 /\ tagger.calls[j].cls # "DefaultTagger"
                      THEN {"backoff"} ELSE {})

C15_Witness ==
    /\ ret.op = "SequenceBackoffTagger"
    /\ tagger.built
    /\ Len(tagger.calls) = 6
    /\ tagger.calls[2].cls = "AffixTagger"
    /\ DOMAIN tagger.calls[2].cls_args =
          {"train", "affix_length", "min_stem_length", "backoff"}
    /\ tagger.calls[3].cls = "RegexpTagger"
    /\ tagger.calls[1].cls = "DefaultTagger"

\* the classes of the constructor calls, in the order declared
ClassesCalled ==
    LET called == [j \in 1..Len(tagger.calls) |-> tagger.calls[j].cls]
    IN  IF input.reverse THEN reversed(called) ELSE called

\* C16 (as stated): a name resolves when, whatever its casing, it is one
\* of default, unigram, bigram, trigram, ngram, affix, regex, regexp, with
\* or without 'tagger' after it, and to the same class in each spelling;
\* any other name is rejected.
NameOrSuffixed(name) ==
    \E base \in DOMAIN mapping :
        Str(upper(name)) \in {base, base \o "TAGGER"}

Spelled ==
    [Default |-> "DefaultTagger", default |-> "DefaultTagger",
     Unigram |-> "UnigramTagger", unigram |-> "UnigramTagger",
     Bigram |-> "BigramTagger", bigram |-> "BigramTagger",
     Trigram |-> "TrigramTagger", trigram |-> "TrigramTagger",
     ngram |-> "NgramTagger", affix |-> "AffixTagger",
     AffixTagger |-> "AffixTagger", regex |-> "RegexpTagger",
     taggerDefault |-> "DefaultTagger"]
    @@ ("regexp tagger" :> "RegexpTagger") @@ ("uni gram" :> "UnigramTagger")

ListOfStr(arg) ==
    arg.type = "list" /\ \A i \in 1..Len(arg.v) : arg.v[i].type = "str"

C17_TagAsTokenized ==
    (ret.op = "tag" /\ ListOfStr(ret.arg)) =>
        /\ ret.out.err = "none"
        /\ ret.out.val.of = "pairs"
        /\ Len(ret.out.val.v) = Len(ret.arg.v)
        /\ \A i \in 1..Len(ret.arg.v) : ret.out.val.v[i][1] = ret.arg.v[i].v
        /\ ret.out.val.v = tag_tokenized(tagger, strs(ret.arg.v))

\* C18: Tagger.tag_tokenized_sentences returns one tagged sentence for each
\* sentence given, in the order given: the i-th has as many (word, tag)
\* pairs as the i-th sentence has words, with the same words in the same
\* order.
C18_SentenceBySentence ==
    ret.op = "tag_tokenized_sentences" =>
        /\ ret.out.err = "none"
        /\ Len(ret.out.val) = Len(ret.arg)
        /\ \A i \in 1..Len(ret.arg) :
              /\ Len(ret.out.val[i]) = Len(ret.arg[i])
              /\ \A j \in 1..Len(ret.arg[i]) :
                    ret.out.val[i][j][1] = ret.arg[i][j]

C18_Witness ==
    /\ ret.op = "tag_tokenized_sentences"
    /\ Len(ret.arg) = 2
    /\ Len(ret.arg[1]) = 3
    /\ Len(ret.arg[2]) = 2
    /\ Len(ret.out.val[1]) = 3
    /\ ret.out.val[2][1][1] = <<"c","a","s","a","l">>

\* the accuracy returned, by _accuracy or by evaluate, and what it is the
\* accuracy of: the number of positions, and of those where the tag of the
\* tagger (the tag predicted) is the gold tag
AccuracyReturned ==
    \/ ret.op = "_accuracy" /\ ret.out.err = "none"
    \/ /\ ret.op = "evaluate" /\ ret.out.err = "none"
       /\ "accuracy" \in ret.out.val.computed
AccuracyValue ==
    IF ret.op = "_accuracy" THEN ret.out.val ELSE ret.out.val.accuracy
AccuracyKeywords == IF ret.op = "_accuracy" THEN ret.arg ELSE ret.arg.args
TestPositions ==
    {p \in (1..Len(ret.arg.test)) \X (1..MaxSentLen + 1) :
        p[2] <= Len(ret.arg.test[p[1]])}
Positions ==
    IF ret.op = "_accuracy" THEN Len(ret.arg.y_true)
    ELSE Cardinality(TestPositions)
Matches ==
    IF ret.op = "_accuracy"
    THEN Cardinality({i \in 1..Len(ret.arg.y_true) :
                         ret.arg.y_true[i] = ret.arg.y_pred[i]})
    ELSE Cardinality({p \in TestPositions :
            tag_tokenized(tagger,
                [i \in 1..Len(ret.arg.test[p[1]]) |->
                    ret.arg.test[p[1]][i][1]])[p[2]][2]
            = Some(ret.arg.test[p[1]][p[2]][2])})
TheExample ==
    /\ ret.op = "_accuracy"
    /\ ret.arg.y_true = <<Some(<<"N","O","U","N">>), Some(<<"V","E","R","B">>),
                          Some(<<"N","O","U","N">>), Some(<<"N","O","U","N">>)>>
    /\ ret.arg.y_pred = <<Some(<<"N","O","U","N">>), Some(<<"N","O","U","N">>),
                          Some(<<"N","O","U","N">>), Some(<<"V","E","R","B">>)>>

\* C19 (as stated): the accuracy returned, the keyword arguments left at
\* their defaults, is the number of positions where the predicted tag is the
\* gold tag divided by the number of positions, a value in [0,1]; it is 0.5
\* for the example.
C19_ExactFraction ==
    (AccuracyReturned /\ AccuracyKeywords.normalize
        /\ AccuracyKeywords.decimals = 2) =>
        /\ ~AccuracyValue.nan
        /\ AccuracyValue.num * Positions = Matches * AccuracyValue.den
        /\ 0 <= AccuracyValue.num /\ AccuracyValue.num <= AccuracyValue.den
        /\ TheExample => 2 * AccuracyValue.num = AccuracyValue.den

\* C19 (amended): with normalize the accuracy returned is that fraction
\* rounded to `decimals` decimal places (2 by default): a multiple of
\* 10^-decimals in [0,1], half of 10^-decimals from the fraction at most;
\* without normalize it is the number of positions where the predicted tag
\* is the gold tag.  For the example it is 0.5 when decimals is 2.
C19_RoundedFraction ==
    AccuracyReturned =>
        /\ ~AccuracyValue.nan
        /\ IF AccuracyKeywords.normalize
           THEN /\ AccuracyValue.den = Pow10(AccuracyKeywords.decimals)
                /\ 0 <= AccuracyValue.num
                /\ AccuracyValue.num <= AccuracyValue.den
                /\ 2 * (AccuracyValue.num * Positions
                        - Matches * AccuracyValue.den) <= Positions
                /\ 2 * (Matches * AccuracyValue.den
                        - AccuracyValue.num * Positions) <= Positions
           ELSE AccuracyValue.den = 1 /\ AccuracyValue.num = Matches
        /\ (TheExample /\ AccuracyKeywords.normalize
               /\ AccuracyKeywords.decimals = 2) =>
              2 * AccuracyValue.num = AccuracyValue.den

C19_Witness ==
    /\ AccuracyReturned
    /\ ret.op = "evaluate"
    /\ AccuracyKeywords.normalize
    /\ AccuracyKeywords.decimals = 2
    /\ Positions = 3
    /\ Matches = 2
    /\ AccuracyValue.num = 67
    /\ AccuracyValue.den = 100

\* C20: the confusion matrix for a list `labels`, asked for as counts, is
\* square of size len(labels), and its entry [i][j] is the number of
\* tokens whose gold tag is labels[i] and whose predicted tag is labels[j],
\* whatever labels are in the data.
C20_CountsByLabels ==
    (ret.op = "_confusion_matrix" /\ ret.out.err = "none"
        /\ ~ret.arg.normalize) =>
        /\ Len(ret.out.val) = Len(ret.arg.labels)
        /\ \A i \in 1..Len(ret.arg.labels) :
              /\ Len(ret.out.val[i]) = Len(ret.arg.labels)
              /\ \A j \in 1..Len(ret.arg.labels) :
                    /\ ~ret.out.val[i][j].nan
                    /\ ret.out.val[i][j].den = 1
                    /\ ret.out.val[i][j].num =
                          Cardinality({k \in 1..Len(ret.arg.y_true) :
                              /\ ret.arg.y_true[k].v = ret.arg.labels[i]
                              /\ ret.arg.y_pred[k].v = ret.arg.labels[j]})

\* C21: in the confusion matrix normalized by rows, the row of a label with
\* one gold occurrence at least sums to 1.0, within the tolerance of its
\* rounded entries, and the row of a label with no gold occurrence (one
\* that is only predicted) is all zeros.
RowLabels == unique_labels(ret.arg.y_true, ret.arg.y_pred)
GoldSupport(label) ==
    Cardinality({k \in 1..Len(ret.arg.y_true) : ret.arg.y_true[k].v = label})
RECURSIVE RowSum(_)
RowSum(row) == IF row = <<>> THEN 0 ELSE Head(row).num + RowSum(Tail(row))

C21_RowsSumToOne ==
    (ret.op = "_confusion_matrix" /\ ret.out.err = "none"
        /\ ret.arg.normalize) =>
        \A i \in 1..Len(ret.out.val) :
            /\ \A j \in 1..Len(ret.out.val[i]) : ~ret.out.val[i][j].nan
            /\ IF GoldSupport(RowLabels[i]) > 0
               THEN /\ 2 * (RowSum(ret.out.val[i]) - Pow10(ret.arg.decimals))
                          <= Len(ret.out.val[i])
                    /\ 2 * (Pow10(ret.arg.decimals) - RowSum(ret.out.val[i]))
                          <= Len(ret.out.val[i])
               ELSE \A j \in 1..Len(ret.out.val[i]) : ret.out.val[i][j].num = 0

\* C22: the row of the classification report named L, for each label L of
\* the list of names, has the statistics of L: precision TP/(TP+FP), recall
\* TP/(TP+FN), F1 their harmonic mean (0 when both are 0) and support the
\* number of gold occurrences of L.
TruePositives(label) ==
    Cardinality({k \in 1..Len(ret.arg.y_true) :
                    ret.arg.y_true[k].v = label /\ ret.arg.y_pred[k].v = label})
PredictedAs(label) ==
    Cardinality({k \in 1..Len(ret.arg.y_pred) : ret.arg.y_pred[k].v = label})
SameRatio(r, num, den) ==
    /\ ~r.nan
    /\ IF den = 0 THEN r.num = 0 ELSE r.num * den = num * r.den

C22_RowOfItsLabel ==
    (ret.op = "_classification_report" /\ ret.out.err = "none") =>
        /\ Len(ret.out.val) = Len(ret.arg.target_names)
        /\ \A i \in 1..Len(ret.out.val) :
              LET L == ret.out.val[i].name
              IN  /\ L = ret.arg.target_names[i]
                  /\ ret.out.val[i].support = GoldSupport(L)
                  /\ SameRatio(ret.out.val[i].precision,
                               TruePositives(L), PredictedAs(L))
                  /\ SameRatio(ret.out.val[i].recall,
                               TruePositives(L), GoldSupport(L))
                  /\ SameRatio(ret.out.val[i].f1_score,
                               2 * TruePositives(L),
                               PredictedAs(L) + GoldSupport(L))

\* C23: when the tag predicted is the gold tag for every token of the test
\* set, evaluate (asked for the accuracy and the confusion matrix, normalize
\* left at its default) returns the accuracy 1.0 and a confusion matrix in
\* which every entry off the diagonal is zero.
C23_PerfectScore ==
    (ret.op = "evaluate" /\ ret.arg.args.accuracy /\ ret.arg.args.conf_matrix
        /\ ret.arg.args.normalize /\ Matches = Positions) =>
        /\ ret.out.err = "none"
        /\ ~ret.out.val.accuracy.nan
        /\ ret.out.val.accuracy.num = ret.out.val.accuracy.den
        /\ \A i \in 1..Len(ret.out.val.conf_matrix) :
              \A j \in 1..Len(ret.out.val.conf_matrix[i]) :
                  i # j => /\ ~ret.out.val.conf_matrix[i][j].nan
                           /\ ret.out.val.conf_matrix[i][j].num = 0

\* C24: gold and predicted tags that are not of one length make the
\* evaluation fail with an error of the mismatch (ValueError), nothing
\* returned and neither list cut to the length of the other; evaluate
\* itself predicts one tag for each gold tag.
StaticMetric ==
    ret.op \in {"_accuracy", "_confusion_matrix", "_classification_report"}

C24_MismatchRaises ==
    /\ (StaticMetric /\ Len(ret.arg.y_true) # Len(ret.arg.y_pred)) =>
          ret.out = Raise("ValueError")
    /\ (ret.op = "evaluate") =>
          \A s \in 1..Len(ret.arg.test) :
              Len(tag_tokenized(tagger,
                      [i \in 1..Len(ret.arg.test[s]) |->
                          ret.arg.test[s][i][1]]))
              = Len(ret.arg.test[s])

C24_Witness ==
    /\ ret.op = "_accuracy"
    /\ Len(ret.arg.y_true) = 2
    /\ Len(ret.arg.y_pred) = 1
    /\ ret.arg.y_true[1] = ret.arg.y_pred[1]
    /\ ret.out.err = "ValueError"

\* C25: a trained tagger saved to a location and loaded from that location
\* is a tagger that gives every sentence the tags that the tagger saved
\* gives it.
SavedThenLoaded ==
    /\ \/ ret.op = "save" /\ ret'.op = "load"
       \/ ret.op = "taggers.save" /\ ret'.op = "taggers.load"
    /\ ret.out.err = "none"
    /\ ret'.arg = ret.arg
SameTags(loaded) ==
    /\ loaded.cls \in {"SequenceBackoffTagger", "nltk tagger"}
    /\ \A sentence \in Sentences :
          tag(loaded.taggers, loaded.tagger, sentence)
          = tag(tagger.taggers, tagger.tagger, sentence)

C25_RoundTrip ==
    [][SavedThenLoaded =>
          /\ ret'.out.err = "none"
          /\ IF ret'.op = "load" THEN SameTags(ret'.out.val)
             ELSE SameTags(ret'.out.val.cls_tagger)]_vars

\* C26: a failure of the persistence is an error raised, never an object
\* returned: save to a location that cannot be written raises; load from a
\* location that cannot be read raises; load of what is not the pickle of
\* a tagger (no pickle at all, or the pickle of another object) raises.
TaggerPickleAt(filepath) ==
    /\ Str(filepath) \in DOMAIN files
    /\ files[Str(filepath)].exists
    /\ files[Str(filepath)].content.format = "pickle"
    /\ files[Str(filepath)].content.cls
          \in {"SequenceBackoffTagger", "nltk tagger"}

C26_FailuresRaise ==
    /\ (ret.op \in {"save", "taggers.save"} /\ ~can_write(ret.arg)) =>
          ret.out.err # "none"
    /\ (ret.op \in {"load", "taggers.load"} /\ ~TaggerPickleAt(ret.arg)) =>
          ret.out.err # "none"

\* C27: once the tagger is built, no call of tag, tag_tokenized_sentences,
\* evaluate, save or load, one that fails included, changes the taggers it
\* holds, the first of them, their backoff links or their hyperparameters.
C27_ChainUnchanged ==
    [][(tagger.built /\ ret'.op # "SequenceBackoffTagger") =>
          tagger' = tagger]_vars

C27_Witness ==
    /\ tagger.built
    /\ ret.op = "load"
    /\ ret.out.err = "none"
    /\ ret.out.val.cls = "list"
    /\ tagger.tagger = 2
    /\ tagger.taggers[2].backoff = 1

\* C28: tagging a finite sentence with a built chain terminates: every
\* backoff link of a tagger points to a tagger built before it (or to
\* none), so the links from the head form an acyclic path, of at most
\* len(sequence) taggers, and tag_tokenized returns one pair per token.
LinksBackwards ==
    \A k \in 1..Len(tagger.taggers) :
        tagger.taggers[k].backoff \in 0..(k - 1)
C28_AcyclicChain ==
    tagger.built =>
        /\ LinksBackwards
        /\ tagger.tagger \in 1..Len(tagger.taggers)
        /\ Cardinality(LinksFrom(tagger.tagger)) <= Len(Declared)
        /\ ret.op = "tag_tokenized" =>
              /\ Len(ret.out.val) = Len(ret.arg)
              /\ \A i \in 1..Len(ret.arg) : ret.out.val[i][1] = ret.arg[i]

C28_Witness ==
    /\ tagger.built
    /\ ret.op = "tag_tokenized"
    /\ Len(ret.arg) = 2
    /\ Len(ret.out.val) = 2
    /\ Len(Declared) = 6
    /\ Cardinality(LinksFrom(tagger.tagger)) = 6

\* C29: a hyperparameter given explicitly, with a value that is not None,
\* reaches the constructors unchanged, the default standing in for None
\* only: min_stem_length=0 stays 0, regexps=[] stays the empty list.
GivenKept(given, passed) == ~given.none => passed = given.v
C29_GivenValuesKept ==
    (ret.op = "SequenceBackoffTagger" /\ input.for = "SequenceBackoffTagger") =>
        \A j \in 1..Len(tagger.calls) :
            LET cls == tagger.calls[j].cls
                cls_args == tagger.calls[j].cls_args
            IN  /\ cls = "DefaultTagger" =>
                      GivenKept(input.default_tag, cls_args.tag)
                /\ cls = "AffixTagger" =>
                      /\ GivenKept(input.affix_length, cls_args.affix_length)
                      /\ GivenKept(input.min_stem_length,
                                   cls_args.min_stem_length)
                /\ cls = "RegexpTagger" =>
                      GivenKept(input.regexps, cls_args.regexps)

\* C30: train_test_split(test_size) cuts the sentences, in their order, at
\* index floor(total * (1 - test_size)): the training parts are the words
\* and the tags of the sentences before the index, the test parts those
\* of all the other sentences, aligned sentence by sentence.
ShareIndex ==
    (Len(ret.arg.sentences) * (100 - ret.arg.test_size)) \div 100
WordsOf(part) == [i \in 1..Len(part) |-> _get_words(part[i])]
TagsOf(part) == [i \in 1..Len(part) |-> _get_tags(part[i])]
C30_SplitAtShare ==
    (ret.op = "train_test_split" /\ ret.arg.read) =>
        /\ ret.out.err = "none"
        /\ ret.out.val.x_train =
               WordsOf(SubSeq(ret.arg.sentences, 1, ShareIndex))
        /\ ret.out.val.y_train =
               TagsOf(SubSeq(ret.arg.sentences, 1, ShareIndex))
        /\ ret.out.val.x_test =
               WordsOf(SubSeq(ret.arg.sentences, ShareIndex + 1,
                              Len(ret.arg.sentences)))
        /\ ret.out.val.y_test =
               TagsOf(SubSeq(ret.arg.sentences, ShareIndex + 1,
                             Len(ret.arg.sentences)))

====
